---- MODULE Spec2Model ----
(***************************************************************************)
(* Pixel-art generation pipeline: the tool harness (validation chain,      *)
(* static dispatch, budget and seal bookkeeping) with its executors, and   *)
(* the generation orchestrator that drives one job through the harness.    *)
(***************************************************************************)
EXTENDS Integers, Sequences, FiniteSets, TLC

VARIABLES
    config,                 \* HarnessConfig of the harness under execution
    canvas,                 \* ToolHarness.canvas: <<x, y>> -> <<r, g, b>>
    palette_hint,           \* canvas._palette_hint attribute
    tool_calls_executed,    \* ToolHarness.tool_calls_executed
    sealed,                 \* ToolHarness.sealed
    call,                   \* the (tool_name_str, raw_args) of the last execute call
    result,                 \* the ToolCallResult returned by the last execute call
    raised,                 \* exception that escaped the last execute call ("none" if it returned)
    pc,                     \* position of GenerationOrchestrator.run
    db,                     \* committed database state: job row, tier row, records, balance
    tx,                     \* statements executed on the session and not yet committed
    ctx,                    \* the run's JobContext (ctx.set is FALSE while it is None)
    filler,                 \* leading set_pixel commands of the producer's list not yet iterated
    todo,                   \* commands of the producer's list after the leading ones, not yet iterated
    checkpoint_calls,       \* calls made to save_checkpoint, in order
    published,              \* messages published on the job's channel, in order
    refund_calls,           \* calls made to refund_credits, in order
    files,                  \* files written under ART_STORAGE_DIR
    error,                  \* str(exc) of the exception caught by run
    handler_log,            \* how _handle_failure ended ("none" while it has not run)
    runs,                   \* concurrent runs of one job: run id -> position, row read, session
    row_lock,               \* run or session holding the row lock of an uncommitted UPDATE (0: none)
    producer_calls,         \* runs that have called generate_pixel_art
    sessions,               \* concurrent credit operations on one user: session id -> call, position, uncommitted effects
    wm,                     \* a watermarking: input image and identifiers, encode's image, decode's pair
    authenticity,           \* a sealing: image bytes and metadata sealed, the seal, and one verification
    cancel                  \* a cancel_generation request: position, status read, session's statements

harness_vars == <<config, canvas, palette_hint, tool_calls_executed, sealed,
                  call, result, raised>>

run_vars == <<pc, db, tx, ctx, filler, todo, checkpoint_calls, published, refund_calls,
              files, error, handler_log>>

service_vars == <<runs, row_lock, producer_calls, sessions, wm, authenticity, cancel>>

vars == <<harness_vars, run_vars, service_vars>>

-----------------------------------------------------------------------------
(* Bounds of the model *)

CanvasWidth == 3
CanvasHeight == 2
BudgetHard == 2
\* Longest command list the producer returns
MaxToolCalls == 3
\* credit_cost of the job's tier
CreditCost == 3

-----------------------------------------------------------------------------
(* Tool registry: app/services/tools/definitions.py *)

ToolName ==
    {"set_pixel", "fill_rect", "set_palette", "seal_canvas", "draw_line",
     "draw_circle", "flood_fill", "gradient_fill", "dither", "mirror", "rotate"}

Min(a, b) == IF a <= b THEN a ELSE b
Max(a, b) == IF a >= b THEN a ELSE b

\* Field(ge=0)
Ge0(v) == v >= 0
ChannelMax == 255

\* Field(ge=0, le=255)
Channel(v) == v >= 0 /\ v <= ChannelMax

\* extra="forbid" plus required fields: the exact field set.
FieldsOK(raw, required, optional) ==
    /\ required \subseteq DOMAIN raw
    /\ DOMAIN raw \subseteq (required \cup optional)

\* A raw argument with its default when the field is absent.
Default(raw, f, d) == IF f \in DOMAIN raw THEN raw[f] ELSE d

SetPixelArgs(raw) ==
    /\ FieldsOK(raw, {"x", "y", "r", "g", "b"}, {})
    /\ Ge0(raw.x) /\ Ge0(raw.y)
    /\ Channel(raw.r) /\ Channel(raw.g) /\ Channel(raw.b)

FillRectArgs(raw) ==
    /\ FieldsOK(raw, {"x1", "y1", "x2", "y2", "r", "g", "b"}, {})
    /\ Ge0(raw.x1) /\ Ge0(raw.y1) /\ Ge0(raw.x2) /\ Ge0(raw.y2)
    /\ Channel(raw.r) /\ Channel(raw.g) /\ Channel(raw.b)
    \* _check_rect_order
    /\ ~(raw.x2 < raw.x1 \/ raw.y2 < raw.y1)

MaxPaletteColors == 16

SetPaletteArgs(raw) ==
    /\ FieldsOK(raw, {"colors"}, {})
    /\ Len(raw.colors) <= MaxPaletteColors
    \* _validate_colors
    /\ \A i \in 1..Len(raw.colors) :
          /\ Len(raw.colors[i]) = 3
          /\ \A j \in 1..3 : Channel(raw.colors[i][j])

SealCanvasArgs(raw) == FieldsOK(raw, {}, {})

DrawLineArgs(raw) ==
    /\ FieldsOK(raw, {"x1", "y1", "x2", "y2", "r", "g", "b"}, {})
    /\ Ge0(raw.x1) /\ Ge0(raw.y1) /\ Ge0(raw.x2) /\ Ge0(raw.y2)
    /\ Channel(raw.r) /\ Channel(raw.g) /\ Channel(raw.b)

MinRadius == 1
MaxRadius == 32

DrawCircleArgs(raw) ==
    /\ FieldsOK(raw, {"cx", "cy", "radius", "r", "g", "b"}, {"fill"})
    /\ Ge0(raw.cx) /\ Ge0(raw.cy)
    /\ raw.radius >= MinRadius /\ raw.radius <= MaxRadius
    /\ Channel(raw.r) /\ Channel(raw.g) /\ Channel(raw.b)
    /\ Default(raw, "fill", FALSE) \in BOOLEAN

FloodFillArgs(raw) ==
    /\ FieldsOK(raw, {"x", "y", "r", "g", "b"}, {})
    /\ Ge0(raw.x) /\ Ge0(raw.y)
    /\ Channel(raw.r) /\ Channel(raw.g) /\ Channel(raw.b)

GradientFillArgs(raw) ==
    /\ FieldsOK(raw, {"x1", "y1", "x2", "y2", "r1", "g1", "b1", "r2", "g2", "b2"},
                {"direction"})
    /\ Ge0(raw.x1) /\ Ge0(raw.y1) /\ Ge0(raw.x2) /\ Ge0(raw.y2)
    /\ Channel(raw.r1) /\ Channel(raw.g1) /\ Channel(raw.b1)
    /\ Channel(raw.r2) /\ Channel(raw.g2) /\ Channel(raw.b2)
    /\ Default(raw, "direction", "horizontal") \in {"horizontal", "vertical"}

DitherArgs(raw) ==
    /\ FieldsOK(raw, {"x1", "y1", "x2", "y2", "r1", "g1", "b1", "r2", "g2", "b2"}, {})
    /\ Ge0(raw.x1) /\ Ge0(raw.y1) /\ Ge0(raw.x2) /\ Ge0(raw.y2)
    /\ Channel(raw.r1) /\ Channel(raw.g1) /\ Channel(raw.b1)
    /\ Channel(raw.r2) /\ Channel(raw.g2) /\ Channel(raw.b2)

MirrorArgs(raw) ==
    /\ FieldsOK(raw, {"axis"}, {})
    /\ raw.axis \in {"horizontal", "vertical"}

FullTurn == 360

RotateArgs(raw) ==
    /\ FieldsOK(raw, {"degrees"}, {})
    /\ raw.degrees >= 0 /\ raw.degrees < FullTurn

\* args_model_cls.model_validate(raw_args): TRUE iff no ValidationError.
model_validate(args_model_cls, raw) ==
    CASE args_model_cls = "SetPixelArgs"     -> SetPixelArgs(raw)
      [] args_model_cls = "FillRectArgs"     -> FillRectArgs(raw)
      [] args_model_cls = "SetPaletteArgs"   -> SetPaletteArgs(raw)
      [] args_model_cls = "SealCanvasArgs"   -> SealCanvasArgs(raw)
      [] args_model_cls = "DrawLineArgs"     -> DrawLineArgs(raw)
      [] args_model_cls = "DrawCircleArgs"   -> DrawCircleArgs(raw)
      [] args_model_cls = "FloodFillArgs"    -> FloodFillArgs(raw)
      [] args_model_cls = "GradientFillArgs" -> GradientFillArgs(raw)
      [] args_model_cls = "DitherArgs"       -> DitherArgs(raw)
      [] args_model_cls = "MirrorArgs"       -> MirrorArgs(raw)
      [] args_model_cls = "RotateArgs"       -> RotateArgs(raw)

\* The validated model instance: the raw fields with the defaults filled in.
ParsedArgs(args_model_cls, raw) ==
    CASE args_model_cls = "DrawCircleArgs" ->
            [f \in DOMAIN raw \cup {"fill"} |-> Default(raw, f, FALSE)]
      [] args_model_cls = "GradientFillArgs" ->
            [f \in DOMAIN raw \cup {"direction"} |-> Default(raw, f, "horizontal")]
      [] OTHER -> raw

-----------------------------------------------------------------------------
(* Canvas: a PIL "RGB" image, origin top-left *)

Black == <<0, 0, 0>>

\* Image.new("RGB", (w, h), (0, 0, 0))
NewCanvas(w, h) == [p \in (0..(w - 1)) \X (0..(h - 1)) |-> Black]

SizeW(cv) == Cardinality({p[1] : p \in DOMAIN cv})
SizeH(cv) == Cardinality({p[2] : p \in DOMAIN cv})

\* canvas.putpixel((x, y), color)
putpixel(cv, x, y, color) == [cv EXCEPT ![<<x, y>>] = color]

\* The canvas with every pixel of the set S painted in one colour.
Paint(cv, S, color) == [p \in DOMAIN cv |-> IF p \in S THEN color ELSE cv[p]]

-----------------------------------------------------------------------------
(* Executors: app/services/tools/executors.py.  Each yields the set of     *)
(* canvases the call can leave (a singleton where the source fixes it).    *)

execute_set_pixel(cv, args) ==
    {putpixel(cv, args.x, args.y, <<args.r, args.g, args.b>>)}

\* for y in range(y1, y2 + 1): for x in range(x1, x2 + 1): putpixel
execute_fill_rect(cv, args) ==
    {Paint(cv,
           {p \in DOMAIN cv : /\ args.x1 <= p[1] /\ p[1] <= args.x2
                              /\ args.y1 <= p[2] /\ p[2] <= args.y2},
           <<args.r, args.g, args.b>>)}

\* The palette is advisory: no pixel changes (the hint is stored by the harness step).
execute_set_palette(cv, args) == {cv}

execute_seal_canvas(cv, args) == {cv}

\* PIL line rasteriser (width 0): Bresenham stepping along the major axis for
\* n steps starting at (x, y), error term e; the end point is drawn separately.
RECURSIVE LineSteps(_, _, _, _, _, _, _, _, _)
LineSteps(x, y, e, n, dx, dy, xs, ys, steep) ==
    IF n = 0 THEN {}
    ELSE {<<x, y>>} \cup
         IF steep
         THEN LineSteps(IF e >= 0 THEN x + xs ELSE x, y + ys,
                        (IF e >= 0 THEN e - dy ELSE e) + dx,
                        n - 1, dx, dy, xs, ys, steep)
         ELSE LineSteps(x + xs, IF e >= 0 THEN y + ys ELSE y,
                        (IF e >= 0 THEN e - dx ELSE e) + dy,
                        n - 1, dx, dy, xs, ys, steep)

Abs(v) == IF v < 0 THEN -v ELSE v
Sign(v) == IF v < 0 THEN -1 ELSE 1

LinePoints(x0, y0, x1, y1) ==
    LET dx == Abs(x1 - x0)
        dy == Abs(y1 - y0)
        xs == Sign(x1 - x0)
        ys == Sign(y1 - y0)
    IN  {<<x1, y1>>} \cup
        (IF dx > dy
         THEN LineSteps(x0, y0, 2 * dy - dx, dx, 2 * dx, 2 * dy, xs, ys, FALSE)
         ELSE LineSteps(x0, y0, 2 * dx - dy, dy, 2 * dx, 2 * dy, xs, ys, TRUE))

\* draw.line([(x1, y1), (x2, y2)], fill=color)
execute_draw_line(cv, args) ==
    {Paint(cv, LinePoints(args.x1, args.y1, args.x2, args.y2) \cap DOMAIN cv,
           <<args.r, args.g, args.b>>)}

\* draw.ellipse(bbox, fill=color | outline=color): the ellipse rasteriser is
\* PIL's; what the source fixes is the bounding box, so the call leaves any
\* canvas that differs from the old one only by pixels of the box painted in
\* the colour.
execute_draw_circle(cv, args) ==
    LET bbox == {p \in DOMAIN cv : /\ args.cx - args.radius <= p[1]
                                   /\ p[1] <= args.cx + args.radius
                                   /\ args.cy - args.radius <= p[2]
                                   /\ p[2] <= args.cy + args.radius}
    IN  {Paint(cv, S, <<args.r, args.g, args.b>>) : S \in SUBSET bbox}

Adjacent(p, q) ==
    \/ (p[1] = q[1] /\ Abs(p[2] - q[2]) = 1)
    \/ (p[2] = q[2] /\ Abs(p[1] - q[1]) = 1)

\* ImageDraw.floodfill: the 4-connected region of the seed's colour.
RECURSIVE FloodRegion(_, _, _)
FloodRegion(cv, background, region) ==
    LET next == region \cup
                {p \in DOMAIN cv : /\ cv[p] = background
                                   /\ \E q \in region : Adjacent(p, q)}
    IN  IF next = region THEN region ELSE FloodRegion(cv, background, next)

execute_flood_fill(cv, args) ==
    LET seed == <<args.x, args.y>>
        new_color == <<args.r, args.g, args.b>>
    IN  IF cv[seed] = new_color
        THEN {cv}
        ELSE {Paint(cv, FloodRegion(cv, cv[seed], {seed}), new_color)}

\* int(c1 + (c2 - c1) * t) with t = k / span, 0 <= k <= span
Lerp(c1, c2, k, span) == (c1 * span + (c2 - c1) * k) \div span

execute_gradient_fill(cv, args) ==
    LET horizontal == args.direction = "horizontal"
        span == IF horizontal THEN Max(args.x2 - args.x1, 1)
                              ELSE Max(args.y2 - args.y1, 1)
        Inside(p) == /\ args.x1 <= p[1] /\ p[1] <= args.x2
                     /\ args.y1 <= p[2] /\ p[2] <= args.y2
        Step(p) == IF horizontal THEN p[1] - args.x1 ELSE p[2] - args.y1
    IN  {[p \in DOMAIN cv |->
            IF Inside(p)
            THEN <<Lerp(args.r1, args.r2, Step(p), span),
                   Lerp(args.g1, args.g2, Step(p), span),
                   Lerp(args.b1, args.b2, Step(p), span)>>
            ELSE cv[p]]}

\* color1 if (x + y) % 2 == 0 else color2
execute_dither(cv, args) ==
    {[p \in DOMAIN cv |->
        IF /\ args.x1 <= p[1] /\ p[1] <= args.x2
           /\ args.y1 <= p[2] /\ p[2] <= args.y2
        THEN IF (p[1] + p[2]) % 2 = 0
             THEN <<args.r1, args.g1, args.b1>>
             ELSE <<args.r2, args.g2, args.b2>>
        ELSE cv[p]]}

\* transpose(FLIP_LEFT_RIGHT) for "horizontal", else transpose(FLIP_TOP_BOTTOM)
execute_mirror(cv, args) ==
    LET w == SizeW(cv)
        h == SizeH(cv)
    IN  {[p \in DOMAIN cv |->
            IF args.axis = "horizontal"
            THEN cv[<<w - 1 - p[1], p[2]>>]
            ELSE cv[<<p[1], h - 1 - p[2]>>]]}

QuarterTurn == FullTurn \div 4

\* canvas.rotate(degrees, expand=False, fillcolor=(0, 0, 0)), nearest neighbour,
\* about the image centre, counter-clockwise.  For quarter turns the source
\* pixel of (x, y) is exact; w + h - 2y - 1 etc. are twice the real coordinate.
RotateSource(w, h, degrees, p) ==
    CASE degrees = 0 -> p
      [] degrees = QuarterTurn ->
            <<(w + h - 2 * p[2] - 1) \div 2, (2 * p[1] + 1 + h - w) \div 2>>
      [] degrees = 2 * QuarterTurn -> <<w - 1 - p[1], h - 1 - p[2]>>
      [] degrees = 3 * QuarterTurn ->
            <<(2 * p[2] + 1 + w - h) \div 2, (w + h - 2 * p[1] - 1) \div 2>>

execute_rotate(cv, args) ==
    LET w == SizeW(cv)
        h == SizeH(cv)
    IN  IF args.degrees % QuarterTurn = 0
        THEN {[p \in DOMAIN cv |->
                LET src == RotateSource(w, h, args.degrees, p)
                IN  IF src \in DOMAIN cv THEN cv[src] ELSE Black]}
        \* any other angle resamples: each pixel is black or a pixel of the source
        ELSE [DOMAIN cv -> {Black} \cup {cv[q] : q \in DOMAIN cv}]

\* executor_fn(self.canvas, args)
RunExecutor(executor_fn, cv, args) ==
    CASE executor_fn = "execute_set_pixel"     -> execute_set_pixel(cv, args)
      [] executor_fn = "execute_fill_rect"     -> execute_fill_rect(cv, args)
      [] executor_fn = "execute_set_palette"   -> execute_set_palette(cv, args)
      [] executor_fn = "execute_seal_canvas"   -> execute_seal_canvas(cv, args)
      [] executor_fn = "execute_draw_line"     -> execute_draw_line(cv, args)
      [] executor_fn = "execute_draw_circle"   -> execute_draw_circle(cv, args)
      [] executor_fn = "execute_flood_fill"    -> execute_flood_fill(cv, args)
      [] executor_fn = "execute_gradient_fill" -> execute_gradient_fill(cv, args)
      [] executor_fn = "execute_dither"        -> execute_dither(cv, args)
      [] executor_fn = "execute_mirror"        -> execute_mirror(cv, args)
      [] executor_fn = "execute_rotate"        -> execute_rotate(cv, args)

\* canvas._palette_hint after the executor ran
PaletteAfter(executor_fn, hint, args) ==
    IF executor_fn = "execute_set_palette"
    THEN [set |-> TRUE, colors |-> args.colors]
    ELSE hint

-----------------------------------------------------------------------------
(* Tool harness: app/services/tool_harness.py *)

\* Mutant of DISPATCH: a registered tool without an entry.
DISPATCH_norotate ==
    ("set_pixel"     :> <<"SetPixelArgs", "execute_set_pixel">>) @@
    ("fill_rect"     :> <<"FillRectArgs", "execute_fill_rect">>) @@
    ("set_palette"   :> <<"SetPaletteArgs", "execute_set_palette">>) @@
    ("seal_canvas"   :> <<"SealCanvasArgs", "execute_seal_canvas">>) @@
    ("draw_line"     :> <<"DrawLineArgs", "execute_draw_line">>) @@
    ("draw_circle"   :> <<"DrawCircleArgs", "execute_draw_circle">>) @@
    ("flood_fill"    :> <<"FloodFillArgs", "execute_flood_fill">>) @@
    ("gradient_fill" :> <<"GradientFillArgs", "execute_gradient_fill">>) @@
    ("dither"        :> <<"DitherArgs", "execute_dither">>) @@
    ("mirror"        :> <<"MirrorArgs", "execute_mirror">>)

\* Static dispatch table: ToolName -> (ArgsModel, executor_fn)
DISPATCH ==
    ("set_pixel"     :> <<"SetPixelArgs", "execute_set_pixel">>) @@
    ("fill_rect"     :> <<"FillRectArgs", "execute_fill_rect">>) @@
    ("set_palette"   :> <<"SetPaletteArgs", "execute_set_palette">>) @@
    ("seal_canvas"   :> <<"SealCanvasArgs", "execute_seal_canvas">>) @@
    ("draw_line"     :> <<"DrawLineArgs", "execute_draw_line">>) @@
    ("draw_circle"   :> <<"DrawCircleArgs", "execute_draw_circle">>) @@
    ("flood_fill"    :> <<"FloodFillArgs", "execute_flood_fill">>) @@
    ("gradient_fill" :> <<"GradientFillArgs", "execute_gradient_fill">>) @@
    ("dither"        :> <<"DitherArgs", "execute_dither">>) @@
    ("mirror"        :> <<"MirrorArgs", "execute_mirror">>) @@
    ("rotate"        :> <<"RotateArgs", "execute_rotate">>)

Rect4 == <<<<"x1", "x">>, <<"y1", "y">>, <<"x2", "x">>, <<"y2", "y">>>>

\* Args model -> the (attribute, axis) pairs that are bounds-checked, in order
_COORD_FIELDS ==
    ("SetPixelArgs"     :> <<<<"x", "x">>, <<"y", "y">>>>) @@
    ("FillRectArgs"     :> Rect4) @@
    ("DrawLineArgs"     :> Rect4) @@
    ("DrawCircleArgs"   :> <<<<"cx", "x">>, <<"cy", "y">>>>) @@
    ("FloodFillArgs"    :> <<<<"x", "x">>, <<"y", "y">>>>) @@
    ("GradientFillArgs" :> Rect4) @@
    ("DitherArgs"       :> Rect4)

ToolCallResult(tool_name, success, message) ==
    [tool_name |-> tool_name, success |-> success, message |-> message]

\* Mutant of CoordOutOfBounds: the comparison off by one (> for >=).
CoordOutOfBounds_offbyone(axis, value, w, h) ==
    \/ (axis = "x" /\ value > w)
    \/ (axis = "y" /\ value > h)

\* One coordinate against its canvas dimension.
CoordOutOfBounds(axis, value, w, h) ==
    \/ (axis = "x" /\ value >= w)
    \/ (axis = "y" /\ value >= h)

\* _check_bounds: <<>> when all coordinates are valid, else <<message>> for
\* the first offending coordinate of the model's coordinate list.
_check_bounds(cfg, args_model_cls, args) ==
    IF args_model_cls \notin DOMAIN _COORD_FIELDS
    THEN <<>>
    ELSE LET coord_specs == _COORD_FIELDS[args_model_cls]
             w == cfg.canvas_width
             h == cfg.canvas_height
             bad == {i \in 1..Len(coord_specs) :
                        CoordOutOfBounds(coord_specs[i][2], args[coord_specs[i][1]], w, h)}
         IN  IF bad = {}
             THEN <<>>
             ELSE LET i == CHOOSE j \in bad : \A k \in bad : j <= k
                      attr_name == coord_specs[i][1]
                      axis == coord_specs[i][2]
                  IN  <<<<"out of bounds", attr_name, args[attr_name],
                          IF axis = "x" THEN "width" ELSE "height",
                          IF axis = "x" THEN w ELSE h>>>>

\* Mutant of _validate_preconditions: the seal gate left out.
_validate_preconditions_noseal(cfg, executed, is_sealed, tool_name_str) ==
    IF tool_name_str \notin ToolName
    THEN <<ToolCallResult(tool_name_str, FALSE, <<"Unknown tool", tool_name_str>>)>>
    ELSE IF tool_name_str \notin cfg.allowed_tools
    THEN <<ToolCallResult(tool_name_str, FALSE, <<"not allowed", tool_name_str>>)>>
    ELSE IF executed >= cfg.tool_budget_hard
    THEN <<ToolCallResult(tool_name_str, FALSE,
                          <<"Tool budget exhausted", executed, cfg.tool_budget_hard>>)>>
    ELSE <<>>

\* Mutant of _validate_preconditions: the budget gate off by one (> for >=).
_validate_preconditions_overbudget(cfg, executed, is_sealed, tool_name_str) ==
    IF tool_name_str \notin ToolName
    THEN <<ToolCallResult(tool_name_str, FALSE, <<"Unknown tool", tool_name_str>>)>>
    ELSE IF is_sealed
    THEN <<ToolCallResult(tool_name_str, FALSE, <<"Canvas is sealed">>)>>
    ELSE IF tool_name_str \notin cfg.allowed_tools
    THEN <<ToolCallResult(tool_name_str, FALSE, <<"not allowed", tool_name_str>>)>>
    ELSE IF executed > cfg.tool_budget_hard
    THEN <<ToolCallResult(tool_name_str, FALSE,
                          <<"Tool budget exhausted", executed, cfg.tool_budget_hard>>)>>
    ELSE <<>>

\* Mutant of _validate_preconditions: the gates in the order of the module
\* docstring (name, tier, budget, sealed).
_validate_preconditions_docorder(cfg, executed, is_sealed, tool_name_str) ==
    IF tool_name_str \notin ToolName
    THEN <<ToolCallResult(tool_name_str, FALSE, <<"Unknown tool", tool_name_str>>)>>
    ELSE IF tool_name_str \notin cfg.allowed_tools
    THEN <<ToolCallResult(tool_name_str, FALSE, <<"not allowed", tool_name_str>>)>>
    ELSE IF executed >= cfg.tool_budget_hard
    THEN <<ToolCallResult(tool_name_str, FALSE,
                          <<"Tool budget exhausted", executed, cfg.tool_budget_hard>>)>>
    ELSE IF is_sealed
    THEN <<ToolCallResult(tool_name_str, FALSE, <<"Canvas is sealed">>)>>
    ELSE <<>>

\* Mutant of _validate_preconditions: the tier allow-list gate left out.
_validate_preconditions_notier(cfg, executed, is_sealed, tool_name_str) ==
    IF tool_name_str \notin ToolName
    THEN <<ToolCallResult(tool_name_str, FALSE, <<"Unknown tool", tool_name_str>>)>>
    ELSE IF is_sealed
    THEN <<ToolCallResult(tool_name_str, FALSE, <<"Canvas is sealed">>)>>
    ELSE IF executed >= cfg.tool_budget_hard
    THEN <<ToolCallResult(tool_name_str, FALSE,
                          <<"Tool budget exhausted", executed, cfg.tool_budget_hard>>)>>
    ELSE <<>>

\* _validate_preconditions: <<>> when every gate passes, else <<failure result>>.
_validate_preconditions(cfg, executed, is_sealed, tool_name_str) ==
    IF tool_name_str \notin ToolName
    THEN <<ToolCallResult(tool_name_str, FALSE, <<"Unknown tool", tool_name_str>>)>>
    ELSE IF is_sealed
    THEN <<ToolCallResult(tool_name_str, FALSE, <<"Canvas is sealed">>)>>
    ELSE IF tool_name_str \notin cfg.allowed_tools
    THEN <<ToolCallResult(tool_name_str, FALSE, <<"not allowed", tool_name_str>>)>>
    ELSE IF executed >= cfg.tool_budget_hard
    THEN <<ToolCallResult(tool_name_str, FALSE,
                          <<"Tool budget exhausted", executed, cfg.tool_budget_hard>>)>>
    ELSE <<>>

\* _validate_args: <<>> when the arguments parse and are in bounds, else
\* <<failure result>>.
_validate_args(cfg, tool_name_str, args_model_cls, raw_args) ==
    IF ~model_validate(args_model_cls, raw_args)
    THEN <<ToolCallResult(tool_name_str, FALSE, <<"Argument validation failed">>)>>
    ELSE LET bounds_error == _check_bounds(cfg, args_model_cls,
                                           ParsedArgs(args_model_cls, raw_args))
         IN  IF bounds_error # <<>>
             THEN <<ToolCallResult(tool_name_str, FALSE, bounds_error[1])>>
             ELSE <<>>

\* Mutant of Return: a rejected call is counted against the budget.
Return_counted(res) ==
    /\ result' = res
    /\ raised' = "none"
    /\ tool_calls_executed' = tool_calls_executed + 1
    /\ UNCHANGED <<canvas, palette_hint, sealed>>

\* The harness step returns `res` without touching the harness state.
Return(res) ==
    /\ result' = res
    /\ raised' = "none"
    /\ UNCHANGED <<canvas, palette_hint, tool_calls_executed, sealed>>

\* Mutant of _run_and_record: a successful seal_canvas is not counted.
_run_and_record_sealfree(tool_name_str, executor_fn, args) ==
    \/ /\ canvas' \in RunExecutor(executor_fn, canvas, args)
       /\ palette_hint' = PaletteAfter(executor_fn, palette_hint, args)
       /\ tool_calls_executed' = IF tool_name_str = "seal_canvas"
                                 THEN tool_calls_executed
                                 ELSE tool_calls_executed + 1
       /\ sealed' = IF tool_name_str = "seal_canvas" THEN TRUE ELSE sealed
       /\ result' = ToolCallResult(tool_name_str, TRUE, <<executor_fn>>)
       /\ raised' = "none"
    \/ /\ result' = ToolCallResult(tool_name_str, FALSE, <<"Execution error">>)
       /\ raised' = "none"
       /\ UNCHANGED <<canvas, palette_hint, tool_calls_executed, sealed>>

\* _run_and_record: the executor either returns (counter incremented, seal
\* recorded) or raises, which is caught and reported as a failed result with no
\* bookkeeping.  No executor raises on validated, in-bounds arguments of its
\* own accord; the exception is the environment's and is taken on entry.
_run_and_record(tool_name_str, executor_fn, args) ==
    \/ /\ canvas' \in RunExecutor(executor_fn, canvas, args)
       /\ palette_hint' = PaletteAfter(executor_fn, palette_hint, args)
       /\ tool_calls_executed' = tool_calls_executed + 1
       /\ sealed' = IF tool_name_str = "seal_canvas" THEN TRUE ELSE sealed
       /\ result' = ToolCallResult(tool_name_str, TRUE, <<executor_fn>>)
       /\ raised' = "none"
    \/ /\ result' = ToolCallResult(tool_name_str, FALSE, <<"Execution error">>)
       /\ raised' = "none"
       /\ UNCHANGED <<canvas, palette_hint, tool_calls_executed, sealed>>

\* ToolHarness.execute(tool_name_str, raw_args)
execute(tool_name_str, raw_args) ==
    /\ call' = [tool_name |-> tool_name_str, arguments |-> raw_args]
    /\ UNCHANGED config
    /\ LET pre_error == _validate_preconditions(config, tool_calls_executed,
                                                sealed, tool_name_str)
       IN  IF pre_error # <<>>
           THEN Return(pre_error[1])
           ELSE IF tool_name_str \notin DOMAIN DISPATCH
           THEN \* self.DISPATCH[tool_name] raises KeyError
                /\ raised' = "KeyError"
                /\ UNCHANGED <<canvas, palette_hint, tool_calls_executed,
                               sealed, result>>
           ELSE LET args_model_cls == DISPATCH[tool_name_str][1]
                    executor_fn == DISPATCH[tool_name_str][2]
                    args_error == _validate_args(config, tool_name_str,
                                                 args_model_cls, raw_args)
                IN  IF args_error # <<>>
                    THEN Return(args_error[1])
                    ELSE _run_and_record(tool_name_str, executor_fn,
                                         ParsedArgs(args_model_cls, raw_args))

-----------------------------------------------------------------------------
(* Inputs of the harness specification: a bounded family of calls covering, *)
(* for every tool, accepted arguments and each way of being rejected.       *)

Red == ChannelMax
TooBig == ChannelMax + 1

InPoints == {<<0, 0>>, <<CanvasWidth - 1, CanvasHeight - 1>>}
OutPoints == {<<CanvasWidth, 0>>, <<0, CanvasHeight>>}
AllPoints == InPoints \cup OutPoints
SomePairs == (InPoints \X AllPoints) \cup (OutPoints \X {<<0, 0>>})

Call(name, arguments) == [tool_name |-> name, arguments |-> arguments]

PointArgs(p, r) == [x |-> p[1], y |-> p[2], r |-> r, g |-> 0, b |-> 0]
RectArgs(p1, p2, r) ==
    [x1 |-> p1[1], y1 |-> p1[2], x2 |-> p2[1], y2 |-> p2[2], r |-> r, g |-> 0, b |-> 0]
TwoColorArgs(p1, p2) ==
    [x1 |-> p1[1], y1 |-> p1[2], x2 |-> p2[1], y2 |-> p2[2],
     r1 |-> Red, g1 |-> 0, b1 |-> 0, r2 |-> 0, g2 |-> 0, b2 |-> Red]
CircleArgs(p, radius) ==
    [cx |-> p[1], cy |-> p[2], radius |-> radius, r |-> Red, g |-> 0, b |-> 0]

\* A record with one more field.
With(rec, f, v) == [k \in DOMAIN rec \cup {f} |-> IF k = f THEN v ELSE rec[k]]
\* A record with one field removed.
Without(rec, f) == [k \in DOMAIN rec \ {f} |-> rec[k]]

SetPixelCalls ==
    {Call("set_pixel", PointArgs(p, Red)) : p \in AllPoints} \cup
    {Call("set_pixel", PointArgs(<<CanvasWidth, 0>>, TooBig)),
     Call("set_pixel", PointArgs(<<-1, 0>>, Red)),
     Call("set_pixel", With(PointArgs(<<0, 0>>, Red), "sneaky", TRUE)),
     Call("set_pixel", Without(PointArgs(<<0, 0>>, Red), "b"))}

FloodFillCalls == {Call("flood_fill", PointArgs(p, Red)) : p \in AllPoints}

FillRectCalls ==
    {Call("fill_rect", RectArgs(pp[1], pp[2], Red)) : pp \in AllPoints \X AllPoints} \cup
    {Call("fill_rect", RectArgs(<<0, 0>>, <<CanvasWidth, 0>>, TooBig))}

DrawLineCalls == {Call("draw_line", RectArgs(pp[1], pp[2], Red)) : pp \in SomePairs}

GradientFillCalls ==
    {Call("gradient_fill", TwoColorArgs(pp[1], pp[2])) : pp \in SomePairs} \cup
    {Call("gradient_fill", With(TwoColorArgs(pp[1], pp[2]), "direction", "vertical")) :
        pp \in InPoints \X InPoints} \cup
    {Call("gradient_fill", With(TwoColorArgs(<<0, 0>>, <<0, 0>>), "direction", "diagonal"))}

DitherCalls == {Call("dither", TwoColorArgs(pp[1], pp[2])) : pp \in SomePairs}

DrawCircleCalls ==
    {Call("draw_circle", CircleArgs(p, MinRadius)) : p \in AllPoints} \cup
    {Call("draw_circle", With(CircleArgs(<<0, 0>>, MinRadius), "fill", TRUE)),
     Call("draw_circle", CircleArgs(<<0, 0>>, MinRadius - 1)),
     Call("draw_circle", CircleArgs(<<0, 0>>, MaxRadius + 1))}

MirrorCalls ==
    {Call("mirror", [axis |-> a]) : a \in {"horizontal", "vertical", "diagonal"}}

RotateCalls ==
    {Call("rotate", [degrees |-> d]) :
        d \in {QuarterTurn, 2 * QuarterTurn, 3 * QuarterTurn, FullTurn}}

SetPaletteCalls ==
    {Call("set_palette", [colors |-> cs]) :
        cs \in {<<<<Red, 0, 0>>>>, <<<<TooBig, 0, 0>>>>, <<<<Red, 0>>>>,
                [i \in 1..(MaxPaletteColors + 1) |-> Black]}}

SealCanvasCalls ==
    {Call("seal_canvas", <<>>), Call("seal_canvas", [force |-> TRUE])}

\* Names that are no ToolName ("draw_pixel" is listed by the seeded tiers).
UnknownCalls ==
    {Call("explode_canvas", [x |-> 0]), Call("draw_pixel", PointArgs(<<0, 0>>, Red))}

Calls ==
    SetPixelCalls \cup FloodFillCalls \cup FillRectCalls \cup DrawLineCalls \cup
    GradientFillCalls \cup DitherCalls \cup DrawCircleCalls \cup MirrorCalls \cup
    RotateCalls \cup SetPaletteCalls \cup SealCanvasCalls \cup UnknownCalls

HarnessConfig(w, h, allowed_tools, tool_budget_hard) ==
    [canvas_width |-> w, canvas_height |-> h,
     allowed_tools |-> allowed_tools, tool_budget_hard |-> tool_budget_hard]

\* The configurations the harness is exercised under: every tool allowed (plus
\* a listed name that is no ToolName), and the two-tool tier.
HarnessConfigs ==
    {HarnessConfig(CanvasWidth, CanvasHeight, ToolName \cup {"draw_pixel"}, BudgetHard),
     HarnessConfig(CanvasWidth, CanvasHeight, {"set_pixel", "seal_canvas"}, BudgetHard)}

NoCall == Call("", <<>>)
NoResult == ToolCallResult("", FALSE, <<"none">>)
NoPalette == [set |-> FALSE, colors |-> <<>>]

\* ToolHarness.__init__(config)
HarnessInit(cfg) ==
    /\ config = cfg
    /\ canvas = NewCanvas(cfg.canvas_width, cfg.canvas_height)
    /\ palette_hint = NoPalette
    /\ tool_calls_executed = 0
    /\ sealed = FALSE
    /\ call = NoCall
    /\ result = NoResult
    /\ raised = "none"

-----------------------------------------------------------------------------
(* Generation orchestrator: app/services/generation_orchestrator.py *)

CHECKPOINT_INTERVAL == 50

\* CHECK constraint on art_generation_jobs.status
JobStatuses ==
    {"pending", "executing_tools", "rendering", "completed", "failed", "cancelled"}

\* The art_generation_jobs row of the job the run is started for.
JobRow(exists, status) ==
    [exists |-> exists, user_id |-> "user", generation_tier |-> "tier",
     status |-> status, error_message |-> "", art_id |-> "",
     tool_calls_executed |-> 0, checkpoint_tool_idx |-> 0,
     checkpoint_canvas |-> <<>>]

\* TierConfig loaded by load_tier for the job's tier.
TierConfig ==
    [canvas_width |-> CanvasWidth, canvas_height |-> CanvasHeight,
     credit_cost |-> CreditCost, tool_budget_hard |-> BudgetHard,
     allowed_tools |-> {"set_pixel", "seal_canvas"}]

\* A tier whose budget admits two checkpoint intervals.
LargeTierConfig ==
    [TierConfig EXCEPT !.tool_budget_hard = 2 * CHECKPOINT_INTERVAL + BudgetHard]

\* Rows of generation_tier_definitions by tier_name, as load_tier returns them.
load_tier(tier_name) ==
    IF tier_name = "large" THEN LargeTierConfig ELSE TierConfig

TierNames == {"tier", "large"}

\* JobContext: None before _initialise returns.
NoCtx ==
    [set |-> FALSE, job_id |-> "", user_id |-> "", tier_name |-> "",
     tier |-> TierConfig, art_id |-> "", tool_call_log |-> <<>>]

JobContext(job) ==
    [set |-> TRUE, job_id |-> "job", user_id |-> job.user_id,
     tier_name |-> job.generation_tier, tier |-> load_tier(job.generation_tier),
     art_id |-> "art", tool_call_log |-> <<>>]

\* Committed database state at the start of a run.
Database(job, tier_exists) ==
    [job |-> job, tier_exists |-> tier_exists, art_pieces |-> {},
     summaries |-> {}, archives |-> {}, credit_balance |-> 0,
     credit_transactions |-> <<>>]

\* Mutant of checkpoint: the renderer's canvas was never synchronised with the
\* harness canvas (set_canvas omitted), so the initial black canvas is serialised.
checkpoint_unsynced(cv) ==
    [width |-> SizeW(cv), height |-> SizeH(cv),
     pixels |-> [i \in 1..(SizeW(cv) * SizeH(cv)) |-> Black]]

\* CanvasRenderer.checkpoint: the canvas serialised in raster order.
checkpoint(cv) ==
    [width |-> SizeW(cv), height |-> SizeH(cv),
     pixels |-> [i \in 1..(SizeW(cv) * SizeH(cv)) |->
                    cv[<<(i - 1) % SizeW(cv), (i - 1) \div SizeW(cv)>>]]]

\* Statements the run executes on its session.
set_status(status) == <<"set_status", status>>
set_failed(error_message) == <<"set_failed", error_message>>
save_checkpoint(canvas_data, tool_idx) == <<"save_checkpoint", canvas_data, tool_idx>>
save_art_piece(c) == <<"save_art_piece", c.art_id>>
save_summary(c) == <<"save_summary", c.art_id, Len(c.tool_call_log)>>
save_tool_archive(c) == <<"save_tool_archive", c.tool_call_log>>
\* Mutant of complete_job: the status is left as it is and no art_id stored.
complete_job_skipped(art_id) == <<"set_status", "rendering">>
complete_job(art_id) == <<"complete_job", art_id>>
add_credits(user_id, amount) == <<"add_credits", user_id, amount>>

\* Effect of one statement on the database (UPDATEs match the job row by id).
ApplyStatement(d, st) ==
    CASE st[1] = "set_status" ->
            IF d.job.exists THEN [d EXCEPT !.job.status = st[2]] ELSE d
      [] st[1] = "set_failed" ->
            IF d.job.exists
            THEN [d EXCEPT !.job.status = "failed", !.job.error_message = st[2]]
            ELSE d
      [] st[1] = "save_checkpoint" ->
            IF d.job.exists
            THEN [d EXCEPT !.job.checkpoint_canvas = st[2],
                           !.job.checkpoint_tool_idx = st[3],
                           !.job.tool_calls_executed = st[3]]
            ELSE d
      [] st[1] = "save_art_piece" ->
            [d EXCEPT !.art_pieces = @ \cup {st[2]}]
      [] st[1] = "save_summary" ->
            [d EXCEPT !.summaries = @ \cup {<<st[2], st[3]>>}]
      [] st[1] = "save_tool_archive" ->
            [d EXCEPT !.archives = @ \cup {st[2]}]
      [] st[1] = "complete_job" ->
            IF d.job.exists
            THEN [d EXCEPT !.job.status = "completed", !.job.art_id = st[2]]
            ELSE d
      [] st[1] = "add_credits" ->
            [d EXCEPT !.credit_balance = @ + st[3],
                      !.credit_transactions = Append(@, <<st[2], st[3]>>)]

RECURSIVE ApplyAll(_, _)
ApplyAll(d, stmts) ==
    IF stmts = <<>> THEN d
    ELSE ApplyAll(ApplyStatement(d, Head(stmts)), Tail(stmts))

\* AsyncSession.commit(): every pending statement becomes durable.
commit ==
    /\ db' = ApplyAll(db, tx)
    /\ tx' = <<>>

\* An exception propagates out of the try block of run to _handle_failure.
Raise(exc) ==
    /\ pc' = "handle_failure"
    /\ error' = exc

\* State of the run variables while no run is in progress.
RunIdle ==
    /\ pc = "idle"
    /\ db = Database(JobRow(FALSE, "pending"), FALSE)
    /\ tx = <<>>
    /\ ctx = NoCtx
    /\ filler = 0
    /\ todo = 0
    /\ checkpoint_calls = <<>>
    /\ published = <<>>
    /\ refund_calls = <<>>
    /\ files = {}
    /\ error = ""
    /\ handler_log = "none"

\* State of the service variables while only one run is modelled.
ServicesIdle ==
    /\ runs = <<>>
    /\ row_lock = 0
    /\ producer_calls = {}
    /\ sessions = <<>>
    /\ wm = <<>>
    /\ authenticity = <<>>
    /\ cancel = <<>>

-----------------------------------------------------------------------------
(* Harness specification: any sequence of execute calls on one harness *)

InitHarness ==
    /\ \E cfg \in HarnessConfigs : HarnessInit(cfg)
    /\ RunIdle
    /\ ServicesIdle

\* A caller invokes execute with any call of the family.
Execute ==
    /\ call = NoCall
    /\ \E c \in Calls : execute(c.tool_name, c.arguments)
    /\ UNCHANGED run_vars
    /\ UNCHANGED service_vars

\* The caller takes the returned result (or the exception) before calling again.
TakeResult ==
    /\ call # NoCall
    /\ call' = NoCall
    /\ result' = NoResult
    /\ raised' = "none"
    /\ UNCHANGED <<config, canvas, palette_hint, tool_calls_executed, sealed>>
    /\ UNCHANGED run_vars
    /\ UNCHANGED service_vars

NextHarness == Execute \/ TakeResult

SpecHarness == InitHarness /\ [][NextHarness]_vars

-----------------------------------------------------------------------------
(* One run of GenerationOrchestrator.run(job_id).  Every awaited call on the *)
(* database, the channel, the producer or the file system may raise.        *)

\* Commands the producer returns to the run (each one a dict with tool_name
\* and arguments): accepted, out of bounds, sealing, not in the tier, unknown.
RunCalls ==
    {Call("set_pixel", PointArgs(<<0, 0>>, Red)),
     Call("set_pixel", PointArgs(<<CanvasWidth, 0>>, Red)),
     Call("seal_canvas", <<>>),
     Call("draw_line", RectArgs(<<0, 0>>, <<CanvasWidth - 1, CanvasHeight - 1>>, Red)),
     Call("draw_pixel", PointArgs(<<0, 0>>, Red))}

\* The job rows a run can be started for: any status, or no row at all.
InitRun ==
    /\ HarnessInit(HarnessConfig(TierConfig.canvas_width, TierConfig.canvas_height,
                                 TierConfig.allowed_tools, TierConfig.tool_budget_hard))
    /\ pc = "start"
    /\ \E exists \in BOOLEAN, tier_exists \in BOOLEAN, tier_name \in TierNames :
         \E status \in (IF exists THEN JobStatuses ELSE {"pending"}) :
            db = Database([JobRow(exists, status) EXCEPT !.generation_tier = tier_name],
                          tier_exists)
    /\ tx = <<>>
    /\ ctx = NoCtx
    /\ filler = 0
    /\ todo = 0
    /\ checkpoint_calls = <<>>
    /\ published = <<>>
    /\ refund_calls = <<>>
    /\ files = {}
    /\ error = ""
    /\ handler_log = "none"
    /\ ServicesIdle

\* _initialise: load_job and the checks on the row
LoadJob ==
    /\ pc = "start"
    /\ \/ Raise("load_job raised")
       \/ IF ~db.job.exists
          THEN Raise("Job not found")
          ELSE IF db.job.status # "pending"
          THEN Raise("Job has unexpected status")
          ELSE /\ pc' = "load_tier"
               /\ UNCHANGED error
    /\ UNCHANGED <<harness_vars, db, tx, ctx, filler, todo, checkpoint_calls,
                   published, refund_calls, files, handler_log>>
    /\ UNCHANGED service_vars

\* _initialise: load_tier
LoadTier ==
    /\ pc = "load_tier"
    /\ \/ Raise("load_tier raised")
       \/ IF ~db.tier_exists
          THEN Raise("Tier not found")
          ELSE /\ pc' = "set_status"
               /\ UNCHANGED error
    /\ UNCHANGED <<harness_vars, db, tx, ctx, filler, todo, checkpoint_calls,
                   published, refund_calls, files, handler_log>>
    /\ UNCHANGED service_vars

\* _initialise: set_status(job_id, "executing_tools")
SetExecutingTools ==
    /\ pc = "set_status"
    /\ \/ /\ Raise("set_status raised")
          /\ UNCHANGED tx
       \/ /\ tx' = Append(tx, set_status("executing_tools"))
          /\ pc' = "commit_init"
          /\ UNCHANGED error
    /\ UNCHANGED <<harness_vars, db, ctx, filler, todo, checkpoint_calls,
                   published, refund_calls, files, handler_log>>
    /\ UNCHANGED service_vars

\* _initialise: commit, then the JobContext is returned to run
CommitInitialise ==
    /\ pc = "commit_init"
    /\ \/ /\ Raise("commit raised")
          /\ tx' = <<>>
          /\ UNCHANGED <<db, ctx>>
       \/ /\ commit
          /\ ctx' = JobContext(db.job)
          /\ pc' = "generate"
          /\ UNCHANGED error
    /\ UNCHANGED <<harness_vars, filler, todo, checkpoint_calls, published,
                   refund_calls, files, handler_log>>
    /\ UNCHANGED service_vars

\* Lengths of the run of accepted set_pixel commands a producer's list starts
\* with: none, or one short of the first or the second checkpoint.
FillerLengths == {0, CHECKPOINT_INTERVAL - 1, 2 * CHECKPOINT_INTERVAL - 1}

\* The i-th leading command (0-based): pixels in raster order, one colour each.
FillerCall(i) ==
    Call("set_pixel", PointArgs(<<i % CanvasWidth, (i \div CanvasWidth) % CanvasHeight>>,
                                i % (ChannelMax + 1)))

\* _execute_tools up to the loop: the harness is constructed from the tier and
\* the producer returns its command list (or raises).  A list is a run of
\* leading set_pixel commands within the budget followed by up to MaxToolCalls
\* commands of RunCalls.
GeneratePixelArt ==
    /\ pc = "generate"
    /\ config' = HarnessConfig(ctx.tier.canvas_width, ctx.tier.canvas_height,
                               ctx.tier.allowed_tools, ctx.tier.tool_budget_hard)
    /\ canvas' = NewCanvas(ctx.tier.canvas_width, ctx.tier.canvas_height)
    /\ palette_hint' = NoPalette
    /\ tool_calls_executed' = 0
    /\ sealed' = FALSE
    /\ UNCHANGED <<call, result, raised>>
    /\ \/ /\ Raise("generate_pixel_art raised")
          /\ UNCHANGED <<filler, todo>>
       \/ \E f \in FillerLengths, n \in 0..MaxToolCalls :
            /\ f < ctx.tier.tool_budget_hard
            /\ filler' = f
            /\ todo' = n
            /\ pc' = IF f + n = 0 THEN "rendering" ELSE "loop"
            /\ UNCHANGED error
    /\ UNCHANGED <<db, tx, ctx, checkpoint_calls, published, refund_calls, files,
                   handler_log>>
    /\ UNCHANGED service_vars

\* The entry _process_tool_call appends to ctx.tool_call_log
LogEntry(c, res) ==
    [tool_name |-> c.tool_name, arguments |-> c.arguments,
     success |-> res.success, message |-> res.message]

\* ProgressPublisher.publish payload
\* Mutant of Progress: the event carries a counter that was never updated.
Progress_stale(executed, budget) == <<"progress", "executing_tools", 0, budget>>

Progress(executed, budget) == <<"progress", "executing_tools", executed, budget>>

\* Mutant of AfterCall: the loop has no break on harness.sealed.
AfterCall_nobreak(is_sealed, remaining) ==
    IF remaining = 0 THEN "rendering" ELSE "loop"

\* The loop of _execute_tools after a command: break when the harness is
\* sealed, leave when the list is exhausted.
AfterCall(is_sealed, remaining) ==
    IF is_sealed \/ remaining = 0 THEN "rendering" ELSE "loop"

\* The checkpoint condition of _process_tool_call
CheckpointDue(executed) ==
    executed > 0 /\ executed % CHECKPOINT_INTERVAL = 0

\* One iteration of the loop of _execute_tools: _process_tool_call (execute,
\* log, publish, checkpoint when due) and the test of harness.sealed.  The
\* leading commands are those the harness executes without an executor fault.
ProcessToolCall ==
    /\ pc = "loop"
    /\ IF filler > 0
       THEN /\ execute(FillerCall(Len(ctx.tool_call_log)).tool_name,
                       FillerCall(Len(ctx.tool_call_log)).arguments)
            /\ result'.success
            /\ filler' = filler - 1
            /\ todo' = todo
       ELSE /\ \E c \in RunCalls : execute(c.tool_name, c.arguments)
            /\ filler' = filler
            /\ todo' = todo - 1
    /\ IF raised' # "none"
       THEN /\ Raise(raised')
            /\ UNCHANGED <<db, tx, ctx, published, checkpoint_calls>>
       ELSE /\ ctx' = [ctx EXCEPT !.tool_call_log = Append(@, LogEntry(call', result'))]
            /\ \/ /\ Raise("publish raised")
                  /\ UNCHANGED <<db, tx, published, checkpoint_calls>>
               \/ /\ published' = Append(published,
                        Progress(tool_calls_executed', ctx.tier.tool_budget_hard))
                  /\ IF CheckpointDue(tool_calls_executed')
                     THEN \/ /\ Raise("save_checkpoint raised")
                             /\ UNCHANGED <<db, tx, checkpoint_calls>>
                          \/ /\ checkpoint_calls' = Append(checkpoint_calls,
                                    [canvas_data |-> checkpoint(canvas'),
                                     tool_idx |-> tool_calls_executed'])
                             /\ \/ /\ Raise("commit raised")
                                   /\ tx' = <<>>
                                   /\ UNCHANGED db
                                \/ /\ db' = ApplyAll(db, Append(tx,
                                          save_checkpoint(checkpoint(canvas'),
                                                          tool_calls_executed')))
                                   /\ tx' = <<>>
                                   /\ pc' = AfterCall(sealed', filler' + todo')
                                   /\ UNCHANGED error
                     ELSE /\ pc' = AfterCall(sealed', filler' + todo')
                          /\ UNCHANGED <<db, tx, error, checkpoint_calls>>
    /\ UNCHANGED <<refund_calls, files, handler_log>>
    /\ UNCHANGED service_vars

\* _seal_and_persist: set_status(job_id, "rendering") and commit
BeginRendering ==
    /\ pc = "rendering"
    /\ \/ /\ Raise("set_status raised")
          /\ UNCHANGED <<db, tx>>
       \/ /\ Raise("commit raised")
          /\ tx' = <<>>
          /\ UNCHANGED db
       \/ /\ db' = ApplyAll(db, Append(tx, set_status("rendering")))
          /\ tx' = <<>>
          /\ pc' = "store"
          /\ UNCHANGED error
    /\ UNCHANGED <<harness_vars, ctx, filler, todo, checkpoint_calls, published,
                   refund_calls, files, handler_log>>
    /\ UNCHANGED service_vars

\* _seal_and_persist: watermark, export, seal, and the two files written
RenderAndStore ==
    /\ pc = "store"
    /\ \/ /\ Raise("render raised")
          /\ UNCHANGED files
       \/ /\ Raise("write_bytes raised")
          /\ files' = files \cup {<<ctx.art_id, "image">>}
       \/ /\ files' = files \cup {<<ctx.art_id, "image">>, <<ctx.art_id, "thumbnail">>}
          /\ pc' = "persist"
          /\ UNCHANGED error
    /\ UNCHANGED <<harness_vars, db, tx, ctx, filler, todo, checkpoint_calls,
                   published, refund_calls, handler_log>>
    /\ UNCHANGED service_vars

\* The statements of the persist block, in order
PersistStatements(c) ==
    <<save_art_piece(c), save_summary(c), save_tool_archive(c), complete_job(c.art_id)>>

\* _seal_and_persist: the four records and the commit
PersistRecords ==
    /\ pc = "persist"
    /\ \/ \E k \in 0..(Len(PersistStatements(ctx)) - 1) :
            \* statement k+1 raises after k statements were executed
            /\ Raise("persist raised")
            /\ tx' = tx \o SubSeq(PersistStatements(ctx), 1, k)
            /\ UNCHANGED db
       \/ /\ Raise("commit raised")
          /\ tx' = <<>>
          /\ UNCHANGED db
       \/ /\ db' = ApplyAll(db, tx \o PersistStatements(ctx))
          /\ tx' = <<>>
          /\ pc' = "publish_complete"
          /\ UNCHANGED error
    /\ UNCHANGED <<harness_vars, ctx, filler, todo, checkpoint_calls, published,
                   refund_calls, files, handler_log>>
    /\ UNCHANGED service_vars

\* _seal_and_persist: publish_complete, after which run returns
PublishComplete ==
    /\ pc = "publish_complete"
    /\ \/ /\ Raise("publish_complete raised")
          /\ UNCHANGED published
       \/ /\ published' = Append(published, <<"complete", ctx.art_id>>)
          /\ pc' = "done"
          /\ UNCHANGED error
    /\ UNCHANGED <<harness_vars, db, tx, ctx, filler, todo, checkpoint_calls,
                   refund_calls, files, handler_log>>
    /\ UNCHANGED service_vars

\* refund_credits(db, user_id, amount, reference_id): the call as recorded
RefundCall(c) == [user_id |-> c.user_id, amount |-> c.tier.credit_cost]

\* Statements _handle_failure executes before its commit
FailureStatements(c, err) ==
    IF c.set THEN <<set_failed(err), add_credits(c.user_id, c.tier.credit_cost)>>
    ELSE <<set_failed(err)>>

\* _handle_failure(job_id, ctx, error): mark failed, refund when ctx is set,
\* commit, publish; any exception inside is logged and swallowed.
HandleFailure ==
    /\ pc = "handle_failure"
    /\ pc' = "done"
    /\ \/ /\ handler_log' = "set_failed raised"
          /\ UNCHANGED <<db, tx, refund_calls, published>>
       \/ /\ ctx.set
          /\ handler_log' = "refund_credits raised"
          /\ refund_calls' = Append(refund_calls, RefundCall(ctx))
          /\ tx' = Append(tx, set_failed(error))
          /\ UNCHANGED <<db, published>>
       \/ /\ handler_log' = "commit raised"
          /\ refund_calls' = IF ctx.set THEN Append(refund_calls, RefundCall(ctx))
                             ELSE refund_calls
          /\ tx' = <<>>
          /\ UNCHANGED <<db, published>>
       \/ /\ refund_calls' = IF ctx.set THEN Append(refund_calls, RefundCall(ctx))
                             ELSE refund_calls
          /\ db' = ApplyAll(db, tx \o FailureStatements(ctx, error))
          /\ tx' = <<>>
          /\ \/ /\ handler_log' = "publish_failed raised"
                /\ UNCHANGED published
             \/ /\ handler_log' = "returned"
                /\ published' = Append(published, <<"failed", error>>)
    /\ UNCHANGED <<harness_vars, ctx, filler, todo, checkpoint_calls, files, error>>
    /\ UNCHANGED service_vars

Init == InitRun

Next ==
    \/ LoadJob
    \/ LoadTier
    \/ SetExecutingTools
    \/ CommitInitialise
    \/ GeneratePixelArt
    \/ ProcessToolCall
    \/ BeginRendering
    \/ RenderAndStore
    \/ PersistRecords
    \/ PublishComplete
    \/ HandleFailure

Spec == Init /\ [][Next]_vars

-----------------------------------------------------------------------------
(* Several runs of GenerationOrchestrator.run started for one pending job,  *)
(* each on its own session, their awaits interleaving.  The database is     *)
(* PostgreSQL at its default isolation level: a SELECT reads the committed  *)
(* row, an UPDATE holds the row's lock until its session commits.           *)

\* Runs started for the job
NumRuns == 2

RunIds == 1..NumRuns

\* A run: its position, the row load_job returned, its session's pending
\* statements and the exception run caught.
RunState(position, job, statements, exc) ==
    [pc |-> position, job |-> job, tx |-> statements, error |-> exc]

InitTwoRuns ==
    /\ HarnessInit(HarnessConfig(TierConfig.canvas_width, TierConfig.canvas_height,
                                 TierConfig.allowed_tools, TierConfig.tool_budget_hard))
    /\ pc = "idle"
    /\ \E tier_exists \in BOOLEAN : db = Database(JobRow(TRUE, "pending"), tier_exists)
    /\ tx = <<>>
    /\ ctx = NoCtx
    /\ filler = 0
    /\ todo = 0
    /\ checkpoint_calls = <<>>
    /\ published = <<>>
    /\ refund_calls = <<>>
    /\ files = {}
    /\ error = ""
    /\ handler_log = "none"
    /\ runs = [r \in RunIds |-> RunState("start", JobRow(FALSE, "pending"), <<>>, "")]
    /\ row_lock = 0
    /\ producer_calls = {}
    /\ sessions = <<>>
    /\ wm = <<>>
    /\ authenticity = <<>>
    /\ cancel = <<>>

\* _initialise of run r: load_job (a plain SELECT) and the checks on the row
RunLoadJob ==
    \E r \in DOMAIN runs :
        /\ runs[r].pc = "start"
        /\ runs' = [runs EXCEPT
              ![r].job = db.job,
              ![r].error = IF ~db.job.exists THEN "Job not found"
                           ELSE IF db.job.status # "pending"
                           THEN "Job has unexpected status" ELSE "",
              ![r].pc = IF db.job.exists /\ db.job.status = "pending"
                        THEN "load_tier" ELSE "handle_failure"]
        /\ UNCHANGED <<harness_vars, run_vars, row_lock, producer_calls>>
        /\ UNCHANGED <<sessions, wm, authenticity, cancel>>

\* _initialise of run r: load_tier and its check
RunLoadTier ==
    \E r \in DOMAIN runs :
        /\ runs[r].pc = "load_tier"
        /\ runs' = [runs EXCEPT
              ![r].error = IF db.tier_exists THEN "" ELSE "Tier not found",
              ![r].pc = IF db.tier_exists THEN "set_status" ELSE "handle_failure"]
        /\ UNCHANGED <<harness_vars, run_vars, row_lock, producer_calls>>
        /\ UNCHANGED <<sessions, wm, authenticity, cancel>>

\* _initialise of run r: set_status(job_id, "executing_tools"), an UPDATE with
\* no condition on the status, which waits for the row's lock
RunSetExecutingTools ==
    \E r \in DOMAIN runs :
        /\ runs[r].pc = "set_status"
        /\ row_lock = 0
        /\ row_lock' = r
        /\ runs' = [runs EXCEPT ![r].tx = Append(@, set_status("executing_tools")),
                                ![r].pc = "commit"]
        /\ UNCHANGED <<harness_vars, run_vars, producer_calls>>
        /\ UNCHANGED <<sessions, wm, authenticity, cancel>>

\* _initialise of run r: commit
RunCommitInitialise ==
    \E r \in DOMAIN runs :
        /\ runs[r].pc = "commit"
        /\ db' = ApplyAll(db, runs[r].tx)
        /\ row_lock' = 0
        /\ runs' = [runs EXCEPT ![r].tx = <<>>, ![r].pc = "generate"]
        /\ UNCHANGED <<harness_vars, pc, tx, ctx, filler, todo, checkpoint_calls,
                       published, refund_calls, files, error, handler_log,
                       producer_calls>>
        /\ UNCHANGED <<sessions, wm, authenticity, cancel>>

\* _execute_tools of run r: the command producer is called
RunGeneratePixelArt ==
    \E r \in DOMAIN runs :
        /\ runs[r].pc = "generate"
        /\ producer_calls' = producer_calls \cup {r}
        /\ runs' = [runs EXCEPT ![r].pc = "executing"]
        /\ UNCHANGED <<harness_vars, run_vars, row_lock>>
        /\ UNCHANGED <<sessions, wm, authenticity, cancel>>

\* _seal_and_persist of run r: set_status(job_id, "rendering") and commit
RunBeginRendering ==
    \E r \in DOMAIN runs :
        /\ runs[r].pc = "executing"
        /\ row_lock = 0
        /\ db' = ApplyAll(db, <<set_status("rendering")>>)
        /\ runs' = [runs EXCEPT ![r].pc = "persist"]
        /\ UNCHANGED <<harness_vars, pc, tx, ctx, filler, todo, checkpoint_calls,
                       published, refund_calls, files, error, handler_log, row_lock,
                       producer_calls>>
        /\ UNCHANGED <<sessions, wm, authenticity, cancel>>

\* _seal_and_persist of run r: complete_job, commit and publish_complete
RunCompleteJob ==
    \E r \in DOMAIN runs :
        /\ runs[r].pc = "persist"
        /\ row_lock = 0
        /\ db' = ApplyAll(db, <<complete_job(r)>>)
        /\ published' = Append(published, <<"complete", r>>)
        /\ runs' = [runs EXCEPT ![r].pc = "done"]
        /\ UNCHANGED <<harness_vars, pc, tx, ctx, filler, todo, checkpoint_calls,
                       refund_calls, files, error, handler_log, row_lock,
                       producer_calls>>
        /\ UNCHANGED <<sessions, wm, authenticity, cancel>>

\* _handle_failure(job_id, None, error) of a run that failed in _initialise:
\* set_failed, commit, publish_failed
RunHandleFailure ==
    \E r \in DOMAIN runs :
        /\ runs[r].pc = "handle_failure"
        /\ row_lock = 0
        /\ db' = ApplyAll(db, <<set_failed(runs[r].error)>>)
        /\ published' = Append(published, <<"failed", runs[r].error>>)
        /\ runs' = [runs EXCEPT ![r].pc = "done"]
        /\ UNCHANGED <<harness_vars, pc, tx, ctx, filler, todo, checkpoint_calls,
                       refund_calls, files, error, handler_log, row_lock,
                       producer_calls>>
        /\ UNCHANGED <<sessions, wm, authenticity, cancel>>

NextTwoRuns ==
    \/ RunLoadJob
    \/ RunLoadTier
    \/ RunSetExecutingTools
    \/ RunCommitInitialise
    \/ RunGeneratePixelArt
    \/ RunBeginRendering
    \/ RunCompleteJob
    \/ RunHandleFailure

SpecTwoRuns == InitTwoRuns /\ [][NextTwoRuns]_vars

-----------------------------------------------------------------------------
(* Concurrent credit operations on one user's row, each on its own session: *)
(* atomic_deduct_credits, and add_credits (refund_credits delegates to it). *)
(* An UPDATE waits for the row's lock, evaluates its WHERE clause on the    *)
(* row as last committed, and keeps the lock until its session commits or   *)
(* rolls back; the callers commit (or roll back on a later exception).      *)

\* Concurrent sessions
NumSessions == 2
\* Largest amount of one call, and largest starting balance
MaxAmount == 2
MaxBalance == 2

SessionIds == 1..NumSessions

\* Amounts the callers pass: a tier's credit_cost, a pack's credit_amount, a
\* listing's price or payout, all positive.
Amounts == 1..MaxAmount

CreditCalls ==
    [fn : {"atomic_deduct_credits", "add_credits", "refund_credits"}, amount : Amounts]

\* txn_type of the transaction row a call writes
TxnType(c) ==
    CASE c.fn = "atomic_deduct_credits" -> "spend"
      [] c.fn = "refund_credits" -> "refund"
      [] OTHER -> "purchase"

\* Mutant of DeductMatches: the UPDATE has no condition on the balance.
DeductMatches_unconditional(credit_balance, amount) == TRUE

\* WHERE clause of the UPDATE of atomic_deduct_credits (for the user's row)
DeductMatches(credit_balance, amount) == credit_balance >= amount

\* SET clause of the UPDATE of a call
NewBalance(c, credit_balance) ==
    IF c.fn = "atomic_deduct_credits"
    THEN credit_balance - c.amount
    ELSE credit_balance + c.amount

\* The row a call inserts into credit_transactions
TransactionRow(s, c) ==
    [user_id |-> "user",
     amount |-> IF c.fn = "atomic_deduct_credits" THEN 0 - c.amount ELSE c.amount,
     txn_type |-> TxnType(c), reference_id |-> s]

InitCredits ==
    /\ HarnessInit(HarnessConfig(TierConfig.canvas_width, TierConfig.canvas_height,
                                 TierConfig.allowed_tools, TierConfig.tool_budget_hard))
    /\ pc = "idle"
    /\ \E b \in 0..MaxBalance :
          db = [Database(JobRow(FALSE, "pending"), FALSE) EXCEPT !.credit_balance = b]
    /\ tx = <<>>
    /\ ctx = NoCtx
    /\ filler = 0
    /\ todo = 0
    /\ checkpoint_calls = <<>>
    /\ published = <<>>
    /\ refund_calls = <<>>
    /\ files = {}
    /\ error = ""
    /\ handler_log = "none"
    /\ runs = <<>>
    /\ row_lock = 0
    /\ producer_calls = {}
    /\ sessions \in [SessionIds -> [call : CreditCalls, pc : {"start"}, balance : {0},
                                    rows : {<<>>}, status_code : {0}]]
    /\ wm = <<>>
    /\ authenticity = <<>>
    /\ cancel = <<>>

\* atomic_deduct_credits: the conditional UPDATE ... RETURNING, and the 402
\* raised when it returns no row
DeductUpdate ==
    \E s \in SessionIds :
        /\ sessions[s].pc = "start"
        /\ sessions[s].call.fn = "atomic_deduct_credits"
        /\ row_lock = 0
        /\ IF DeductMatches(db.credit_balance, sessions[s].call.amount)
           THEN /\ sessions' = [sessions EXCEPT
                      ![s].balance = NewBalance(sessions[s].call, db.credit_balance),
                      ![s].pc = "insert"]
                /\ row_lock' = s
           ELSE /\ sessions' = [sessions EXCEPT ![s].pc = "raised",
                                                ![s].status_code = 402]
                /\ UNCHANGED row_lock
        /\ UNCHANGED <<harness_vars, run_vars, runs, producer_calls>>
        /\ UNCHANGED <<wm, authenticity, cancel>>

\* add_credits: the UPDATE ... RETURNING of the user's row
AddUpdate ==
    \E s \in SessionIds :
        /\ sessions[s].pc = "start"
        /\ sessions[s].call.fn # "atomic_deduct_credits"
        /\ row_lock = 0
        /\ sessions' = [sessions EXCEPT
              ![s].balance = NewBalance(sessions[s].call, db.credit_balance),
              ![s].pc = "insert"]
        /\ row_lock' = s
        /\ UNCHANGED <<harness_vars, run_vars, runs, producer_calls>>
        /\ UNCHANGED <<wm, authenticity, cancel>>

\* The INSERT INTO credit_transactions of either function, which then returns
InsertTransaction ==
    \E s \in SessionIds :
        /\ sessions[s].pc = "insert"
        /\ sessions' = [sessions EXCEPT
              ![s].rows = Append(@, TransactionRow(s, sessions[s].call)),
              ![s].pc = "returned"]
        /\ UNCHANGED <<harness_vars, run_vars, runs, row_lock, producer_calls>>
        /\ UNCHANGED <<wm, authenticity, cancel>>

\* The caller's db.commit()
SessionCommit ==
    \E s \in SessionIds :
        /\ sessions[s].pc = "returned"
        /\ db' = [db EXCEPT !.credit_balance = sessions[s].balance,
                            !.credit_transactions = @ \o sessions[s].rows]
        /\ row_lock' = 0
        /\ sessions' = [sessions EXCEPT ![s].pc = "committed"]
        /\ UNCHANGED <<harness_vars, pc, tx, ctx, filler, todo, checkpoint_calls,
                       published, refund_calls, files, error, handler_log, runs,
                       producer_calls>>
        /\ UNCHANGED <<wm, authenticity, cancel>>

\* The session is rolled back: the 402 or a later exception of the caller
\* ends the request.
SessionRollback ==
    \E s \in SessionIds :
        /\ sessions[s].pc \in {"insert", "returned", "raised"}
        /\ row_lock' = IF row_lock = s THEN 0 ELSE row_lock
        /\ sessions' = [sessions EXCEPT ![s].pc = "rolled_back", ![s].rows = <<>>]
        /\ UNCHANGED <<harness_vars, run_vars, runs, producer_calls>>
        /\ UNCHANGED <<wm, authenticity, cancel>>

NextCredits ==
    \/ DeductUpdate
    \/ AddUpdate
    \/ InsertTransaction
    \/ SessionCommit
    \/ SessionRollback

SpecCredits == InitCredits /\ [][NextCredits]_vars

-----------------------------------------------------------------------------
(* WatermarkEncoder: app/services/watermark.py.  An image is an RGB raster; *)
(* a uuid.UUID is its 128-bit integer, held as eight 16-bit fields, most    *)
(* significant first.                                                       *)

\* len(data) * 8 of encode, the 256 of decode
WatermarkBits == 256
\* A UUID's bytes
UUIDLength == 16
\* Bits of one field of a UUID's integer
FieldBits == 16

\* uuid.UUID.bytes: the integer as 16 bytes, big-endian
UUIDBytes(u) ==
    [i \in 1..UUIDLength |->
        IF i % 2 = 1 THEN u[(i + 1) \div 2] \div (ChannelMax + 1)
        ELSE u[i \div 2] % (ChannelMax + 1)]

\* uuid.UUID(bytes=b): the integer int.from_bytes(b, "big")
UUIDFromBytes(b) ==
    [k \in 1..(UUIDLength \div 2) |-> b[2 * k - 1] * (ChannelMax + 1) + b[2 * k]]

\* Image.new / Image.size / Image.load: an RGB image
Image(w, h, pixels) == [width |-> w, height |-> h, pixels |-> pixels]

NoImage == Image(0, 0, <<>>)

\* Position of pixel <<x, y>> in the order of `for y ...: for x ...:`
RasterIndex(img, p) == p[2] * img.width + p[1]

\* Mutant of EncodedBit: the bits of a byte are taken least significant first.
EncodedBit_lsbfirst(data, bit_idx) ==
    (data[(bit_idx \div 8) + 1] \div (2 ^ (bit_idx % 8))) % 2

\* (data[bit_idx // 8] >> (7 - bit_idx % 8)) & 1
EncodedBit(data, bit_idx) ==
    (data[(bit_idx \div 8) + 1] \div (2 ^ (7 - (bit_idx % 8)))) % 2

\* Mutant of WithLSB: the bit replaces the whole channel value.
WithLSB_overwrite(r, bit) == bit

\* (r & 0xFE) | bit
WithLSB(r, bit) == (r - (r % 2)) + bit

\* Mutant of encode: an image of fewer than 256 pixels takes the bits in the
\* LSBs of red, green and blue of each pixel in turn.
encode_rgbfallback(image, art_id, owner_id) ==
    LET data == UUIDBytes(art_id) \o UUIDBytes(owner_id)
        Bit(p, ch) ==
            IF image.width * image.height >= Len(data) * 8
            THEN IF ch = 1 /\ RasterIndex(image, p) < Len(data) * 8
                 THEN WithLSB(image.pixels[p][ch], EncodedBit(data, RasterIndex(image, p)))
                 ELSE image.pixels[p][ch]
            ELSE IF 3 * RasterIndex(image, p) + ch - 1 < Len(data) * 8
                 THEN WithLSB(image.pixels[p][ch],
                              EncodedBit(data, 3 * RasterIndex(image, p) + ch - 1))
                 ELSE image.pixels[p][ch]
    IN  [image EXCEPT !.pixels =
            [p \in DOMAIN image.pixels |-> <<Bit(p, 1), Bit(p, 2), Bit(p, 3)>>]]

\* WatermarkEncoder.encode(image, art_id, owner_id): the returned image, a copy
\* of `image` in which the pixels visited before bit_idx reaches len(data) * 8
\* carry the bits of art_id.bytes + owner_id.bytes
encode(image, art_id, owner_id) ==
    LET data == UUIDBytes(art_id) \o UUIDBytes(owner_id)
    IN  [image EXCEPT !.pixels =
            [p \in DOMAIN image.pixels |->
                IF RasterIndex(image, p) < Len(data) * 8
                THEN <<WithLSB(image.pixels[p][1],
                               EncodedBit(data, RasterIndex(image, p))),
                       image.pixels[p][2], image.pixels[p][3]>>
                ELSE image.pixels[p]]]

\* The bits decode collects: r & 1 of the first 256 pixels in raster order
DecodedBits(image) ==
    [i \in 1..Min(WatermarkBits, image.width * image.height) |->
        image.pixels[<<(i - 1) % image.width, (i - 1) \div image.width>>][1] % 2]

\* data[i // 8] |= bits[i] << (7 - i % 8), for the bits of byte j
RECURSIVE DecodedByte(_, _, _)
DecodedByte(bits, j, m) ==
    IF m = 8 THEN 0
    ELSE bits[8 * j + m + 1] * (2 ^ (7 - m)) + DecodedByte(bits, j, m + 1)

\* WatermarkEncoder.decode(image): the pair of identifiers, or the IndexError
\* of bits[i] when the image has fewer than 256 pixels
decode(image) ==
    LET bits == DecodedBits(image)
    IN  IF Len(bits) < WatermarkBits THEN <<"IndexError">>
        ELSE LET data == [j \in 1..(2 * UUIDLength) |-> DecodedByte(bits, j - 1, 0)]
             IN  <<UUIDFromBytes(SubSeq(data, 1, UUIDLength)),
                   UUIDFromBytes(SubSeq(data, UUIDLength + 1, 2 * UUIDLength))>>

\* Identifiers: a family of 128-bit values whose bytes differ in every way
\* the bit layout can tell apart.
Identifiers ==
    {[k \in 1..(UUIDLength \div 2) |-> 0],
     [k \in 1..(UUIDLength \div 2) |-> 2 ^ FieldBits - 1],
     [k \in 1..(UUIDLength \div 2) |-> 2 ^ (FieldBits - 1) + 1],
     [k \in 1..(UUIDLength \div 2) |-> ChannelMax],
     [k \in 1..(UUIDLength \div 2) |-> (k * 4660 + k) % (2 ^ FieldBits)]}

\* Sizes of the images: 256 pixels exactly, and more, in rows that do and do
\* not divide 256; and fewer than 256 pixels, with and without room for 256
\* bits in three channels
ImageSizes == {<<16, 16>>, <<20, 13>>, <<9, 32>>, <<15, 17>>, <<43, 2>>, <<3, 2>>}

\* Rasters: black, white, and one with every channel varying from pixel to pixel
Rasters(w, h) ==
    {NewCanvas(w, h),
     [p \in (0..(w - 1)) \X (0..(h - 1)) |-> <<ChannelMax, ChannelMax, ChannelMax>>],
     [p \in (0..(w - 1)) \X (0..(h - 1)) |->
        <<(7 * p[1] + 13 * p[2] + 1) % (ChannelMax + 1),
          (3 * p[1] + 5 * p[2]) % (ChannelMax + 1),
          (p[1] + 2 * p[2] + 128) % (ChannelMax + 1)>>]}

Images == UNION {{Image(s[1], s[2], px) : px \in Rasters(s[1], s[2])} : s \in ImageSizes}

InitWatermark ==
    /\ HarnessInit(HarnessConfig(TierConfig.canvas_width, TierConfig.canvas_height,
                                 TierConfig.allowed_tools, TierConfig.tool_budget_hard))
    /\ RunIdle
    /\ runs = <<>>
    /\ row_lock = 0
    /\ producer_calls = {}
    /\ sessions = <<>>
    /\ \E img \in Images, a \in Identifiers, b \in Identifiers :
          wm = [image |-> img, art_id |-> a, owner_id |-> b,
                encoded |-> NoImage, decoded |-> <<>>]
    /\ authenticity = <<>>
    /\ cancel = <<>>

\* watermarked = WatermarkEncoder.encode(image, art_id, owner_id); the
\* argument is copied before any pixel is written
WatermarkEncode ==
    /\ wm.encoded = NoImage
    /\ wm' = [wm EXCEPT !.encoded = encode(wm.image, wm.art_id, wm.owner_id)]
    /\ UNCHANGED <<harness_vars, run_vars, runs, row_lock, producer_calls, sessions>>
    /\ UNCHANGED <<authenticity, cancel>>

\* WatermarkEncoder.decode(watermarked)
WatermarkDecode ==
    /\ wm.encoded # NoImage
    /\ wm.decoded = <<>>
    /\ wm' = [wm EXCEPT !.decoded = decode(wm.encoded)]
    /\ UNCHANGED <<harness_vars, run_vars, runs, row_lock, producer_calls, sessions>>
    /\ UNCHANGED <<authenticity, cancel>>

NextWatermark == WatermarkEncode \/ WatermarkDecode

SpecWatermark == InitWatermark /\ [][NextWatermark]_vars

-----------------------------------------------------------------------------
(* AuthenticityManager: app/services/authenticity.py.  A str is a sequence  *)
(* of characters.  SHA-256 and HMAC-SHA256 are collision-free: a digest is  *)
(* the record of what was hashed.                                           *)

\* Largest key_version of a SealMetadata
MaxKeyVersion == 2

\* settings.HMAC_KEY, the one configured signing key
HMAC_KEY == authenticity.HMAC_KEY

\* str(n) of a non-negative int
RECURSIVE IntStr(_)
IntStr(n) ==
    IF n < 10 THEN <<(<<"0", "1", "2", "3", "4", "5", "6", "7", "8", "9">>)[n + 1]>>
    ELSE IntStr(n \div 10) \o IntStr(n % 10)

\* hashlib.sha256(image_bytes).hexdigest(), one item of the formatted string
sha256_hexdigest(image_bytes) == [sha256 |-> image_bytes]

\* hmac.new(key.encode(), msg.encode(), hashlib.sha256).hexdigest()
hmac_hexdigest(key, msg) == [hmac_key |-> key, msg |-> msg]

SealMetadata(art_id, creator_id, model_name, key_version) ==
    [art_id |-> art_id, creator_id |-> creator_id, model_name |-> model_name,
     key_version |-> key_version]

\* Mutant of seal_data: key_version is left out of the sealed string.
seal_data_noversion(generation_hash, metadata) ==
    <<generation_hash>> \o <<":">> \o metadata.art_id \o <<":">>
        \o metadata.creator_id \o <<":">> \o metadata.model_name

\* f"{generation_hash}:{art_id}:{creator_id}:{model_name}:{key_version}"
seal_data(generation_hash, metadata) ==
    <<generation_hash>> \o <<":">> \o metadata.art_id \o <<":">>
        \o metadata.creator_id \o <<":">> \o metadata.model_name \o <<":">>
        \o IntStr(metadata.key_version)

\* AuthenticityManager.create_seal: <<seal_signature, generation_hash>>
create_seal(image_bytes, metadata) ==
    LET generation_hash == sha256_hexdigest(image_bytes)
    IN  <<hmac_hexdigest(HMAC_KEY, seal_data(generation_hash, metadata)),
          generation_hash>>

\* AuthenticityManager.verify_seal
verify_seal(image_bytes, metadata, seal_signature) ==
    seal_signature = create_seal(image_bytes, metadata)[1]

\* Image bytes: strings of one and two bytes differing in each position
ImageBytes == {<<0>>, <<0, 0>>, <<0, 1>>, <<1, 0>>}

\* Values of the str fields, with and without the separator character
FieldValues == {<<"a">>, <<"b">>, <<"a", ":">>, <<":", "a">>}

Metadatas ==
    {SealMetadata(a, c, m, k) :
        a \in FieldValues, c \in FieldValues, m \in FieldValues,
        k \in 1..MaxKeyVersion}

NoSeal == <<>>

InitSeal ==
    /\ HarnessInit(HarnessConfig(TierConfig.canvas_width, TierConfig.canvas_height,
                                 TierConfig.allowed_tools, TierConfig.tool_budget_hard))
    /\ RunIdle
    /\ runs = <<>>
    /\ row_lock = 0
    /\ producer_calls = {}
    /\ sessions = <<>>
    /\ wm = <<>>
    /\ cancel = <<>>
    /\ \E b \in ImageBytes, m \in Metadatas :
          authenticity = [image_bytes |-> b, metadata |-> m, seal |-> NoSeal,
                          verified |-> <<>>, HMAC_KEY |-> <<"k">>]

\* seal_signature, _ = create_seal(image_bytes, metadata)
CreateSeal ==
    /\ authenticity.seal = NoSeal
    /\ authenticity' = [authenticity EXCEPT
          !.seal = create_seal(authenticity.image_bytes, authenticity.metadata)[1]]
    /\ UNCHANGED <<harness_vars, run_vars, runs, row_lock, producer_calls, sessions, wm, cancel>>

\* verify_seal(image_bytes, metadata, seal_signature) with any bytes and metadata
VerifySeal ==
    /\ authenticity.seal # NoSeal
    /\ authenticity.verified = <<>>
    /\ \E b \in ImageBytes, m \in Metadatas :
          authenticity' = [authenticity EXCEPT
              !.verified = <<[image_bytes |-> b, metadata |-> m,
                              valid |-> verify_seal(b, m, authenticity.seal)]>>]
    /\ UNCHANGED <<harness_vars, run_vars, runs, row_lock, producer_calls, sessions, wm, cancel>>

NextSeal == CreateSeal \/ VerifySeal

SpecSeal == InitSeal /\ [][NextSeal]_vars

-----------------------------------------------------------------------------
(* Sealing with a rotation of the configured signing key: settings.HMAC_KEY *)
(* is replaced by a newer key between any two calls.                        *)

\* The operator configures a newer signing key (at most MaxKeyVersion keys).
RotateKey ==
    /\ Len(authenticity.HMAC_KEY) < MaxKeyVersion
    /\ authenticity' = [authenticity EXCEPT !.HMAC_KEY = Append(@, "r")]
    /\ UNCHANGED <<harness_vars, run_vars, runs, row_lock, producer_calls, sessions, wm, cancel>>

\* verify_seal(image_bytes, metadata, seal_signature) with the bytes and the
\* metadata the seal was created for
VerifyOwnSeal ==
    /\ authenticity.seal # NoSeal
    /\ authenticity.verified = <<>>
    /\ authenticity' = [authenticity EXCEPT
          !.verified = <<[image_bytes |-> authenticity.image_bytes,
                          metadata |-> authenticity.metadata,
                          valid |-> verify_seal(authenticity.image_bytes,
                                                authenticity.metadata,
                                                authenticity.seal)]>>]
    /\ UNCHANGED <<harness_vars, run_vars, runs, row_lock, producer_calls, sessions, wm, cancel>>

NextKeyRotation == CreateSeal \/ RotateKey \/ VerifyOwnSeal

SpecKeyRotation == InitSeal /\ [][NextKeyRotation]_vars

-----------------------------------------------------------------------------
(* A cancel request, DELETE /api/v1/generations/{job_id}, handled on its    *)
(* own session while the run of the job proceeds on another one.            *)

\* Holder id of the row lock taken by the session of the cancel request
CancelSession == NumRuns + 1

\* The request: its position, the status _load_job_row returned and the
\* statements pending on its session.
CancelState(position, job_status, statements) ==
    [pc |-> position, job_status |-> job_status, tx |-> statements]

\* The statuses cancel_generation accepts
Cancellable == {"pending", "executing_tools"}

InitCancel ==
    /\ HarnessInit(HarnessConfig(TierConfig.canvas_width, TierConfig.canvas_height,
                                 TierConfig.allowed_tools, TierConfig.tool_budget_hard))
    /\ pc = "idle"
    /\ \E tier_exists \in BOOLEAN : db = Database(JobRow(TRUE, "pending"), tier_exists)
    /\ tx = <<>>
    /\ ctx = NoCtx
    /\ filler = 0
    /\ todo = 0
    /\ checkpoint_calls = <<>>
    /\ published = <<>>
    /\ refund_calls = <<>>
    /\ files = {}
    /\ error = ""
    /\ handler_log = "none"
    /\ runs = [r \in {1} |-> RunState("start", JobRow(FALSE, "pending"), <<>>, "")]
    /\ row_lock = 0
    /\ producer_calls = {}
    /\ sessions = <<>>
    /\ wm = <<>>
    /\ authenticity = <<>>
    /\ cancel = CancelState("start", "", <<>>)

\* cancel_generation: _load_job_row (a plain SELECT), the status check and
\* _get_tier_cost
CancelLoadJob ==
    /\ cancel.pc = "start"
    /\ cancel' = [cancel EXCEPT
          !.job_status = db.job.status,
          !.pc = IF db.job.status \notin Cancellable THEN "409"
                 ELSE IF ~db.tier_exists THEN "400"
                 ELSE "update"]
    /\ UNCHANGED <<harness_vars, run_vars, runs, row_lock, producer_calls,
                   sessions, wm, authenticity>>

\* cancel_generation: the UPDATE to 'cancelled', with no condition on the
\* status, which waits for the row's lock, and refund_credits
CancelUpdate ==
    /\ cancel.pc = "update"
    /\ row_lock = 0
    /\ row_lock' = CancelSession
    /\ refund_calls' = Append(refund_calls,
                              [user_id |-> db.job.user_id, amount |-> TierConfig.credit_cost])
    /\ cancel' = [cancel EXCEPT
          !.tx = <<set_status("cancelled"),
                   add_credits(db.job.user_id, TierConfig.credit_cost)>>,
          !.pc = "commit"]
    /\ UNCHANGED <<harness_vars, pc, db, tx, ctx, filler, todo, checkpoint_calls,
                   published, files, error, handler_log, runs, producer_calls,
                   sessions, wm, authenticity>>

\* cancel_generation: commit and the 'cancelled' response; when the commit
\* raises, the session is rolled back as the request ends
CancelCommit ==
    /\ cancel.pc = "commit"
    /\ row_lock' = 0
    /\ \/ /\ db' = ApplyAll(db, cancel.tx)
          /\ cancel' = [cancel EXCEPT !.tx = <<>>, !.pc = "cancelled"]
       \/ /\ cancel' = [cancel EXCEPT !.tx = <<>>, !.pc = "500"]
          /\ UNCHANGED db
    /\ UNCHANGED <<harness_vars, pc, tx, ctx, filler, todo, checkpoint_calls,
                   published, refund_calls, files, error, handler_log, runs,
                   producer_calls, sessions, wm, authenticity>>

\* A step of run r after _initialise raises (producer, harness loop, render or
\* persist), and _handle_failure(job_id, ctx, error) marks the job failed,
\* refunds, commits and publishes; an exception inside the handler is logged
\* and nothing of it is committed.
RunFailAfterInitialise ==
    \E r \in DOMAIN runs :
        /\ runs[r].pc \in {"generate", "executing", "persist"}
        /\ row_lock = 0
        /\ runs' = [runs EXCEPT ![r].pc = "done", ![r].error = "run raised"]
        /\ refund_calls' = Append(refund_calls,
                                  [user_id |-> runs[r].job.user_id,
                                   amount |-> TierConfig.credit_cost])
        /\ \/ /\ db' = ApplyAll(db, FailureStatements(JobContext(runs[r].job),
                                                      "run raised"))
              /\ published' = Append(published, <<"failed", "run raised">>)
           \/ UNCHANGED <<db, published>>
        /\ UNCHANGED <<harness_vars, pc, tx, ctx, filler, todo, checkpoint_calls,
                       files, error, handler_log, row_lock, producer_calls,
                       sessions, wm, authenticity, cancel>>

NextCancel ==
    \/ RunLoadJob
    \/ RunLoadTier
    \/ RunSetExecutingTools
    \/ RunCommitInitialise
    \/ RunGeneratePixelArt
    \/ RunBeginRendering
    \/ RunCompleteJob
    \/ RunHandleFailure
    \/ RunFailAfterInitialise
    \/ CancelLoadJob
    \/ CancelUpdate
    \/ CancelCommit

SpecCancel == InitCancel /\ [][NextCancel]_vars

-----------------------------------------------------------------------------
(* Properties of the harness, checked under SpecHarness *)

\* A step in which execute was called (the call and its outcome are primed).
Executed == call' # NoCall

Kind(res) == res.message[1]

\* C1: once seal_canvas has succeeded (the harness is sealed), every later
\* execute call, whatever its name and arguments, returns success = false,
\* and tool_calls_executed and the canvas stay as they were.
C1_SealedIsTerminal ==
    [][sealed => /\ canvas' = canvas
                 /\ tool_calls_executed' = tool_calls_executed
                 /\ sealed'
                 /\ (Executed => (raised' = "none" /\ ~result'.success))]_vars

\* A drawing call made after the seal on a canvas that had been drawn on.
C1_Witness ==
    /\ sealed
    /\ call.tool_name = "fill_rect"
    /\ Kind(result) = "Canvas is sealed"
    /\ canvas # NewCanvas(config.canvas_width, config.canvas_height)

\* C2: tool_calls_executed <= tool_budget_hard in every reachable state, and
\* an execute call for a registered, tier-allowed command on an unsealed
\* harness with tool_calls_executed = tool_budget_hard fails with the
\* budget-exhausted message and leaves the counter unchanged.
C2_BudgetNeverExceeded ==
    /\ [](tool_calls_executed <= config.tool_budget_hard)
    /\ [][(/\ Executed
           /\ ~sealed
           /\ call'.tool_name \in ToolName \cap config.allowed_tools
           /\ tool_calls_executed = config.tool_budget_hard)
          => (/\ ~result'.success
              /\ result'.message = <<"Tool budget exhausted", tool_calls_executed,
                                     config.tool_budget_hard>>
              /\ tool_calls_executed' = tool_calls_executed)]_vars

\* The call that would exceed the budget, otherwise acceptable.
C2_Witness ==
    /\ tool_calls_executed = config.tool_budget_hard
    /\ ~sealed
    /\ call = Call("set_pixel", PointArgs(<<0, 0>>, Red))
    /\ Kind(result) = "Tool budget exhausted"

\* Coordinates by field name, independently of the harness's table.
XFieldNames == {"x", "x1", "x2", "cx"}
YFieldNames == {"y", "y1", "y2", "cy"}

SomeCoordinateOutside(cfg, raw) ==
    \/ \E f \in DOMAIN raw \cap XFieldNames : raw[f] >= cfg.canvas_width
    \/ \E f \in DOMAIN raw \cap YFieldNames : raw[f] >= cfg.canvas_height

AllCoordinatesInside(cfg, raw) ==
    /\ \A f \in DOMAIN raw \cap XFieldNames : raw[f] >= 0 /\ raw[f] <= cfg.canvas_width - 1
    /\ \A f \in DOMAIN raw \cap YFieldNames : raw[f] >= 0 /\ raw[f] <= cfg.canvas_height - 1

SchemaValid(c) == model_validate(DISPATCH[c.tool_name][1], c.arguments)

\* The first of the six checks, in the claimed order, that call c fails in the
\* current state ("pass" if none).
FirstFailingCheck(c) ==
    IF c.tool_name \notin ToolName THEN "Unknown tool"
    ELSE IF sealed THEN "Canvas is sealed"
    ELSE IF c.tool_name \notin config.allowed_tools THEN "not allowed"
    ELSE IF tool_calls_executed >= config.tool_budget_hard THEN "Tool budget exhausted"
    ELSE IF ~SchemaValid(c) THEN "Argument validation failed"
    ELSE IF SomeCoordinateOutside(config, c.arguments) THEN "out of bounds"
    ELSE "pass"

C3_WitnessUnknownSealed ==
    sealed /\ call.tool_name = "explode_canvas" /\ Kind(result) = "Unknown tool"

\* Registered, not-allowed command on a sealed harness.
C3_WitnessSealedNotAllowed ==
    /\ sealed
    /\ call.tool_name \in ToolName \ config.allowed_tools
    /\ Kind(result) = "Canvas is sealed"

\* Not-allowed command with the budget exhausted.
C3_WitnessNotAllowedBudget ==
    /\ ~sealed
    /\ tool_calls_executed = config.tool_budget_hard
    /\ call.tool_name \in ToolName \ config.allowed_tools
    /\ Kind(result) = "not allowed"

\* Budget-exhausted call with invalid arguments.
C3_WitnessBudgetInvalidArgs ==
    /\ ~sealed
    /\ tool_calls_executed = config.tool_budget_hard
    /\ call.tool_name \in ToolName \cap config.allowed_tools
    /\ ~SchemaValid(call)
    /\ Kind(result) = "Tool budget exhausted"

\* Arguments that violate the schema and are out of bounds.
C3_WitnessInvalidAndOutside ==
    /\ call = Call("set_pixel", PointArgs(<<CanvasWidth, 0>>, TooBig))
    /\ Kind(result) = "Argument validation failed"

ReachesBoundsCheck(c) ==
    /\ c.tool_name \in ToolName \cap config.allowed_tools
    /\ ~sealed
    /\ tool_calls_executed < config.tool_budget_hard
    /\ SchemaValid(c)

\* C4: for every coordinate-bearing command reaching the bounds check, a
\* coordinate v >= d (width for x fields, height for y fields) is rejected
\* with an out-of-bounds message and no pixel is written, and a call with
\* every coordinate in 0..d-1 passes the bounds check.
C4_CoordinateBounds ==
    [][(Executed /\ ReachesBoundsCheck(call'))
       => /\ SomeCoordinateOutside(config, call'.arguments)
               => (~result'.success /\ Kind(result') = "out of bounds"
                   /\ canvas' = canvas)
          /\ AllCoordinatesInside(config, call'.arguments)
               => Kind(result') # "out of bounds"]_vars

\* fill_rect with x2 = canvas_width, all else in range, is rejected.
C4_Witness ==
    /\ call = Call("fill_rect", RectArgs(<<0, 0>>, <<CanvasWidth, 0>>, Red))
    /\ result.message = <<"out of bounds", "x2", CanvasWidth, "width", CanvasWidth>>

\* A corner at (width - 1, height - 1) is accepted and painted.
C4_WitnessLastPixel ==
    /\ call = Call("set_pixel", PointArgs(<<CanvasWidth - 1, CanvasHeight - 1>>, Red))
    /\ result.success
    /\ canvas[<<CanvasWidth - 1, CanvasHeight - 1>>] = <<Red, 0, 0>>

\* C5: a call whose tool name is not in config.allowed_tools never returns
\* success and never changes the canvas, tool_calls_executed or the sealed
\* flag, even when the name is a registered ToolName.
C5_NotAllowedNeverRuns ==
    [][(Executed /\ call'.tool_name \notin config.allowed_tools)
       => (/\ ~result'.success
           /\ canvas' = canvas
           /\ tool_calls_executed' = tool_calls_executed
           /\ sealed' = sealed)]_vars

\* A registered tool outside the tier's list, with acceptable arguments, is refused.
C5_Witness ==
    /\ call.tool_name = "draw_line"
    /\ call.tool_name \notin config.allowed_tools
    /\ SchemaValid(call) /\ AllCoordinatesInside(config, call.arguments)
    /\ Kind(result) = "not allowed"

\* C6: execute never raises and returns a result carrying the given name;
\* every registered ToolName has a DISPATCH entry; an exception inside an
\* executor comes back as success = false with the counter not incremented
\* and the harness not sealed.
C6_ExecuteNeverRaises ==
    [][Executed
       => (/\ ToolName \subseteq DOMAIN DISPATCH
           /\ raised' = "none"
           /\ result'.tool_name = call'.tool_name
           /\ Kind(result') = "Execution error"
                => (/\ ~result'.success
                    /\ tool_calls_executed' = tool_calls_executed
                    /\ ~sealed'))]_vars

\* The seal executor raised: the call failed and the harness stays open.
C6_Witness ==
    /\ call.tool_name = "seal_canvas"
    /\ Kind(result) = "Execution error"
    /\ ~sealed
    /\ raised = "none"

\* C7: every execute call that returns success = true increases
\* tool_calls_executed by exactly 1; sealed goes from false to true exactly
\* when the successful command is seal_canvas, and never from true to false.
C7_SuccessBookkeeping ==
    [][/\ (Executed /\ result'.success)
            => tool_calls_executed' = tool_calls_executed + 1
       /\ (~sealed /\ sealed')
            <=> (Executed /\ result'.success /\ call'.tool_name = "seal_canvas")
       /\ sealed => sealed']_vars

\* A successful seal as the second successful command.
C7_Witness ==
    /\ call.tool_name = "seal_canvas"
    /\ result.success
    /\ sealed
    /\ tool_calls_executed = 2

-----------------------------------------------------------------------------
(* Properties of the run, checked under Spec *)

\* The status transitions the job life cycle allows.
AllowedTransitions ==
    {<<"pending", "executing_tools">>, <<"executing_tools", "rendering">>,
     <<"rendering", "completed">>, <<"pending", "failed">>,
     <<"executing_tools", "failed">>, <<"rendering", "failed">>}

\* C8: the persisted status of the job only moves along pending ->
\* executing_tools -> rendering -> completed, or from pending, executing_tools
\* or rendering to failed; no step of a run writes any other transition, and
\* completed and failed are never left.
C8_StatusLifeCycle ==
    [][db'.job.status # db.job.status
          => <<db.job.status, db'.job.status>> \in AllowedTransitions]_vars

\* The run has returned and its failure handler committed the failed mark.
EndedFailed ==
    /\ pc = "done"
    /\ handler_log \in {"returned", "publish_failed raised"}
    /\ db.job.exists
    /\ db.job.status = "failed"

\* C9: every run that ends with the job marked failed has called the refund
\* exactly once, with the job's user and the tier's credit_cost.
C9_FailedRunRefundsOnce ==
    EndedFailed =>
        refund_calls = <<[user_id |-> db.job.user_id,
                          amount |-> load_tier(db.job.generation_tier).credit_cost]>>

\* C10: when the refund call itself fails inside the failure handler, the run
\* still returns and the job is durably marked failed.
C10_FailedMarkSurvivesRefundFailure ==
    (pc = "done" /\ handler_log = "refund_credits raised")
        => (db.job.status = "failed" /\ db.job.error_message = error)

\* C11: while no operation of the run has raised, a checkpoint has been written
\* exactly once for each multiple of CHECKPOINT_INTERVAL the counter of
\* successfully executed commands has reached: the number of save_checkpoint
\* calls equals floor(tool_calls_executed / CHECKPOINT_INTERVAL) and the k-th
\* call carries tool index k * CHECKPOINT_INTERVAL.
C11_OneCheckpointPerInterval ==
    error = "" =>
        /\ Len(checkpoint_calls) = tool_calls_executed \div CHECKPOINT_INTERVAL
        /\ \A k \in 1..Len(checkpoint_calls) :
              checkpoint_calls[k].tool_idx = k * CHECKPOINT_INTERVAL

\* Number of successful records among log[1..i].
SuccessesUpTo(log, i) == Cardinality({j \in 1..i : log[j].success})

\* Position in the log of its n-th successful record (0 for n = 0); it lies
\* n plus the number of failed records before it.
NthSuccess(log, n) ==
    IF n = 0 THEN 0
    ELSE CHOOSE i \in n..Min(Len(log), n + Len(log) - SuccessesUpTo(log, Len(log))) :
            log[i].success /\ SuccessesUpTo(log, i) = n

\* Colour of pixel p after the successful commands among log[1..last] have
\* been applied to the black canvas: that of the last set_pixel writing p (the
\* only drawing command of a run's tier).
PixelAfter(log, last, p) ==
    LET writers == {i \in 1..last : /\ log[i].success
                                    /\ log[i].tool_name = "set_pixel"
                                    /\ <<log[i].arguments.x, log[i].arguments.y>> = p}
    IN  IF writers = {} THEN <<0, 0, 0>>
        ELSE LET w == CHOOSE i \in writers : \A k \in writers : k <= i
             IN  <<log[w].arguments.r, log[w].arguments.g, log[w].arguments.b>>

\* (canvas_data, tool_idx) is the raster of the canvas that the first tool_idx
\* successful commands of the log produce from the tier's black canvas.
ConsistentCheckpoint(canvas_data, tool_idx, log, tier) ==
    /\ tool_idx <= SuccessesUpTo(log, Len(log))
    /\ canvas_data.width = tier.canvas_width
    /\ canvas_data.height = tier.canvas_height
    /\ LET last == NthSuccess(log, tool_idx)
       IN  \A x \in 0..(canvas_data.width - 1), y \in 0..(canvas_data.height - 1) :
              canvas_data.pixels[y * canvas_data.width + x + 1] =
                  PixelAfter(log, last, <<x, y>>)

\* C12: every checkpoint is a consistent (canvas, count) pair.  A step that
\* writes a checkpoint writes one whose canvas is the result of exactly the
\* first tool_idx successful commands of the run on the initial black canvas
\* and whose tool_idx is the harness counter of that step; the checkpoint
\* persisted in the job row is always one of those written, with the row's
\* tool_calls_executed equal to its tool_idx.
C12_CheckpointConsistent ==
    /\ [][checkpoint_calls' # checkpoint_calls =>
            /\ Len(checkpoint_calls') = Len(checkpoint_calls) + 1
            /\ SubSeq(checkpoint_calls', 1, Len(checkpoint_calls)) = checkpoint_calls
            /\ checkpoint_calls'[Len(checkpoint_calls')].tool_idx = tool_calls_executed'
            /\ ConsistentCheckpoint(checkpoint_calls'[Len(checkpoint_calls')].canvas_data,
                                    checkpoint_calls'[Len(checkpoint_calls')].tool_idx,
                                    ctx'.tool_call_log, ctx'.tier)]_vars
    /\ [](db.job.checkpoint_tool_idx > 0 =>
            /\ db.job.tool_calls_executed = db.job.checkpoint_tool_idx
            /\ \E k \in 1..Len(checkpoint_calls) :
                  /\ checkpoint_calls[k].canvas_data = db.job.checkpoint_canvas
                  /\ checkpoint_calls[k].tool_idx = db.job.checkpoint_tool_idx)

\* A checkpoint persisted at the first interval of a run in which a rejected
\* command preceded the 50th successful one.
C12_Witness ==
    /\ db.job.checkpoint_tool_idx = CHECKPOINT_INTERVAL
    /\ Len(ctx.tool_call_log) = CHECKPOINT_INTERVAL + 1
    /\ ctx.tool_call_log[Len(ctx.tool_call_log)].success
    /\ db.job.checkpoint_canvas # checkpoint(NewCanvas(ctx.tier.canvas_width,
                                                       ctx.tier.canvas_height))

\* C13: once the harness is sealed no further command of the producer's list
\* is passed to the harness, appended to the job log or reported in a progress
\* event, and the successful seal_canvas is the last record of the log.
C13_StopsWhenSealed ==
    /\ [][sealed =>
            /\ call' = call
            /\ ctx'.tool_call_log = ctx.tool_call_log
            /\ (published' # published =>
                   published'[Len(published')][1] # "progress")]_vars
    /\ [](sealed =>
            /\ ctx.tool_call_log # <<>>
            /\ ctx.tool_call_log[Len(ctx.tool_call_log)].tool_name = "seal_canvas"
            /\ ctx.tool_call_log[Len(ctx.tool_call_log)].success)

\* A run that sealed with commands of the list still to come, and completed.
C13_Witness ==
    /\ sealed
    /\ todo > 0
    /\ pc = "done"
    /\ db.job.status = "completed"

\* The run is past the producer's call: the producer returned a list.
ListReturned ==
    pc \in {"loop", "rendering", "store", "persist", "publish_complete"}

\* Exceptions of the storage, database and channel operations after the
\* producer returned.
OperationFailures ==
    {"publish raised", "save_checkpoint raised", "commit raised",
     "set_status raised", "render raised", "write_bytes raised",
     "persist raised", "publish_complete raised"}

C14_WitnessEmptyList ==
    /\ pc = "done"
    /\ db.job.status = "completed"
    /\ ctx.tool_call_log = <<>>

\* A completed run none of whose commands succeeded.
C14_WitnessAllRejected ==
    /\ pc = "done"
    /\ db.job.status = "completed"
    /\ Len(ctx.tool_call_log) = MaxToolCalls
    /\ \A i \in 1..Len(ctx.tool_call_log) : ~ctx.tool_call_log[i].success

\* The complete and failed events, on which a subscriber's stream ends
\* (_is_terminal_event).
TerminalEvents ==
    {i \in 1..Len(published) : published[i][1] \in {"complete", "failed"}}

\* C15: a run publishes exactly one terminal event, and nothing after it: a
\* complete event if the job ends completed, a failed event if it ends failed;
\* a producer that raises before any command yields one failed event and no
\* progress event.  A run whose publish_failed call itself raised is exempt.
C15_ExactlyOneTerminalEvent ==
    /\ Cardinality(TerminalEvents) <= 1
    /\ (TerminalEvents # {} => Len(published) \in TerminalEvents)
    /\ (pc = "done" /\ handler_log # "publish_failed raised") =>
          /\ Cardinality(TerminalEvents) = 1
          /\ (db.job.exists /\ db.job.status = "completed") =>
                published[Len(published)][1] = "complete"
          /\ (db.job.exists /\ db.job.status = "failed") =>
                published[Len(published)][1] = "failed"
          /\ error = "generate_pixel_art raised" =>
                published = <<(<<"failed", error>>)>>

\* C16: of the runs started for one pending job, at most one passes the status
\* check of _initialise and calls the command producer; every other run that
\* has read the job has failed on the status check.
C16_OneRunExecutes ==
    /\ Cardinality(producer_calls) <= 1
    /\ \A r \in RunIds :
          (producer_calls # {} /\ r \notin producer_calls /\ runs[r].pc = "done") =>
              runs[r].error = "Job has unexpected status"

\* Balances of the user's row: the committed one and the uncommitted version
\* written by the session holding the row's lock.
RowVersions ==
    {db.credit_balance} \cup {sessions[s].balance : s \in {row_lock} \cap SessionIds}

\* C17: under every interleaving of atomic_deduct_credits, add_credits and
\* refund_credits calls of concurrent sessions on one user, no version of
\* credit_balance is below 0; a deduction is applied only when the balance at
\* the moment of its UPDATE is at least the amount, and then subtracts exactly
\* the amount; a deduction whose amount exceeds that balance raises 402,
\* changes no balance and writes no transaction row, then or later.
C17_BalanceNeverNegative ==
    /\ [](\A b \in RowVersions : b >= 0)
    /\ [][\A s \in SessionIds :
            (sessions[s].call.fn = "atomic_deduct_credits" /\ sessions[s].pc = "start"
                /\ sessions'[s].pc # "start") =>
               IF db.credit_balance >= sessions[s].call.amount
               THEN /\ sessions'[s].pc = "insert"
                    /\ sessions'[s].balance = db.credit_balance - sessions[s].call.amount
                    /\ row_lock' = s
               ELSE /\ sessions'[s].pc = "raised"
                    /\ sessions'[s].status_code = 402
                    /\ db' = db
                    /\ row_lock' = row_lock
                    /\ sessions'[s].rows = <<>>]_vars
    /\ [](\A s \in SessionIds :
            sessions[s].status_code = 402 =>
               /\ sessions[s].rows = <<>>
               /\ \A i \in 1..Len(db.credit_transactions) :
                     db.credit_transactions[i].reference_id # s)

\* Two deductions that together exceed the balance raced: one was committed,
\* the other raised 402 on the balance the first one left.
C17_Witness ==
    \E s, t \in SessionIds :
        /\ s # t
        /\ sessions[s].call.fn = "atomic_deduct_credits"
        /\ sessions[t].call.fn = "atomic_deduct_credits"
        /\ sessions[s].pc = "committed"
        /\ sessions[t].status_code = 402
        /\ sessions[t].call.amount <= db.credit_balance + sessions[s].call.amount
        /\ db.credit_balance = 0

\* Bit k (0 the most significant) of the 256-bit value art_id followed by
\* owner_id
IdentifierBit(art_id, owner_id, k) ==
    ((art_id \o owner_id)[(k \div FieldBits) + 1]
        \div (2 ^ (FieldBits - 1 - (k % FieldBits)))) % 2

\* C18: decode(encode(img, a, b)) = (a, b) for every image of at least 256
\* pixels, and in the encoded image the red LSB of the k-th pixel in row-major
\* order (k < 256) is bit k of a followed by b, most significant bit first.
C18_WatermarkRoundTrip ==
    wm.image.width * wm.image.height >= WatermarkBits =>
    /\ wm.decoded # <<>> => wm.decoded = <<wm.art_id, wm.owner_id>>
    /\ wm.encoded # NoImage =>
          \A k \in 0..(WatermarkBits - 1) :
              wm.encoded.pixels[<<k % wm.encoded.width, k \div wm.encoded.width>>][1] % 2
                  = IdentifierBit(wm.art_id, wm.owner_id, k)

\* Two different identifiers with unlike bytes, written into an image whose
\* rows do not divide 256 and whose red LSBs they change, were read back.
C18_Witness ==
    /\ wm.image.width * wm.image.height >= WatermarkBits
    /\ wm.decoded = <<wm.art_id, wm.owner_id>>
    /\ wm.art_id # wm.owner_id
    /\ wm.art_id[1] # wm.art_id[2]
    /\ WatermarkBits % wm.image.width # 0
    /\ \E p \in DOMAIN wm.image.pixels : wm.encoded.pixels[p] # wm.image.pixels[p]

DifferingFields(m1, m2) ==
    {f \in {"art_id", "creator_id", "model_name", "key_version"} : m1[f] # m2[f]}

\* C20: under one key, verify_seal accepts the seal create_seal returned for
\* the same bytes and metadata, and rejects it when the image bytes differ, or
\* when exactly one of art_id, creator_id, model_name, key_version differs.
C20_SealVerifies ==
    authenticity.verified # <<>> =>
        LET v == authenticity.verified[1]
            changed == DifferingFields(v.metadata, authenticity.metadata)
        IN  /\ (v.image_bytes = authenticity.image_bytes /\ changed = {}) => v.valid
            /\ (v.image_bytes # authenticity.image_bytes /\ changed = {}) => ~v.valid
            /\ (v.image_bytes = authenticity.image_bytes /\ Cardinality(changed) = 1)
                  => ~v.valid

\* A seal was checked against the same bytes and metadata that differ in
\* key_version only, and rejected.
C20_Witness ==
    /\ authenticity.verified # <<>>
    /\ authenticity.verified[1].image_bytes = authenticity.image_bytes
    /\ DifferingFields(authenticity.verified[1].metadata, authenticity.metadata)
          = {"key_version"}
    /\ ~authenticity.verified[1].valid

\* A seal was checked against the bytes and metadata it was created for, and
\* accepted.
C20_WitnessAccepted ==
    /\ authenticity.verified # <<>>
    /\ authenticity.verified[1].image_bytes = authenticity.image_bytes
    /\ authenticity.verified[1].metadata = authenticity.metadata
    /\ authenticity.verified[1].valid

\* A seal was checked against bytes differing in the last byte only, and rejected.
C20_WitnessTamperedImage ==
    /\ authenticity.verified # <<>>
    /\ authenticity.image_bytes = <<0, 0>>
    /\ authenticity.verified[1].image_bytes = <<0, 1>>
    /\ authenticity.verified[1].metadata = authenticity.metadata
    /\ ~authenticity.verified[1].valid

\* C21: a seal verifies with the bytes and metadata it was created for,
\* whether or not the configured signing key has been rotated since.
C21_SealSurvivesKeyRotation ==
    (/\ authenticity.verified # <<>>
     /\ authenticity.verified[1].image_bytes = authenticity.image_bytes
     /\ authenticity.verified[1].metadata = authenticity.metadata)
        => authenticity.verified[1].valid

\* A fill_rect call with the seven fields, channels in range and both corners
\* on the canvas, in either order, made while the command is admitted.
AdmittedFillRect(c) ==
    /\ c.tool_name = "fill_rect"
    /\ "fill_rect" \in config.allowed_tools
    /\ ~sealed
    /\ tool_calls_executed < config.tool_budget_hard
    /\ FieldsOK(c.arguments, {"x1", "y1", "x2", "y2", "r", "g", "b"}, {})
    /\ Channel(c.arguments.r) /\ Channel(c.arguments.g) /\ Channel(c.arguments.b)
    /\ c.arguments.x1 \in 0..(config.canvas_width - 1)
    /\ c.arguments.x2 \in 0..(config.canvas_width - 1)
    /\ c.arguments.y1 \in 0..(config.canvas_height - 1)
    /\ c.arguments.y2 \in 0..(config.canvas_height - 1)

\* C22: fill_rect with two in-bounds corners, in either order, succeeds (unless
\* the executor itself faults) and paints exactly the pixels between the
\* corners, bounds included, leaving every other pixel as it was.
C22_FillRectOrderIndependent ==
    [][(Executed /\ AdmittedFillRect(call') /\ Kind(result') # "Execution error")
       => /\ result'.success
          /\ canvas' =
               [p \in DOMAIN canvas |->
                  IF /\ Min(call'.arguments.x1, call'.arguments.x2) <= p[1]
                     /\ p[1] <= Max(call'.arguments.x1, call'.arguments.x2)
                     /\ Min(call'.arguments.y1, call'.arguments.y2) <= p[2]
                     /\ p[2] <= Max(call'.arguments.y1, call'.arguments.y2)
                  THEN <<call'.arguments.r, call'.arguments.g, call'.arguments.b>>
                  ELSE canvas[p]]]_vars

\* An image of fewer than 256 pixels whose three channels have room for 256 bits
SmallImage(img) ==
    /\ img.width * img.height < WatermarkBits
    /\ 3 * img.width * img.height >= WatermarkBits

ValidationFailures ==
    {"Unknown tool", "Canvas is sealed", "not allowed", "Tool budget exhausted",
     "Argument validation failed", "out of bounds"}

\* C24: an execute call rejected by a validation stage (unknown name, sealed,
\* not allowed, budget exhausted, schema violation, out of bounds) changes no
\* canvas pixel, nor tool_calls_executed, nor the sealed flag.
C24_RejectionChangesNothing ==
    [][(Executed /\ ~result'.success /\ Kind(result') \in ValidationFailures)
       => /\ canvas' = canvas
          /\ tool_calls_executed' = tool_calls_executed
          /\ sealed' = sealed
          /\ palette_hint' = palette_hint]_vars

\* An out-of-bounds call was rejected on a canvas already painted by an
\* earlier, counted command.
C24_Witness ==
    /\ Kind(result) = "out of bounds"
    /\ tool_calls_executed > 0
    /\ ~sealed
    /\ canvas # NewCanvas(config.canvas_width, config.canvas_height)

\* Each validation stage has rejected a call.
C24_WitnessUnknown == Kind(result) = "Unknown tool" /\ tool_calls_executed > 0
C24_WitnessSealed == Kind(result) = "Canvas is sealed" /\ sealed
C24_WitnessNotAllowed == Kind(result) = "not allowed" /\ tool_calls_executed > 0
C24_WitnessBudget ==
    Kind(result) = "Tool budget exhausted" /\ tool_calls_executed = config.tool_budget_hard
C24_WitnessSchema == Kind(result) = "Argument validation failed" /\ tool_calls_executed > 0

\* The run has committed the completed status together with its art piece.
CompletedCommitted ==
    /\ ctx.set
    /\ db.job.status = "completed"
    /\ db.job.art_id = ctx.art_id
    /\ ctx.art_id \in db.art_pieces

\* C25: once the completed status and the artifact records of the job are
\* committed, no later step of the same run marks the job failed or calls the
\* refund, also when publishing the completion event raises afterwards.
C25_CompletedIsTerminal ==
    [][CompletedCommitted
          => /\ db'.job.status = "completed"
             /\ refund_calls' = refund_calls
             /\ db'.credit_balance = db.credit_balance]_vars

\* The durable artifact records: art_pieces rows, summaries and archives.
ArtifactRecords(d) == <<d.art_pieces, d.summaries, d.archives>>

\* C26: the art_pieces row, the generation summary and the command-log archive
\* of a job become durable only in the commit that makes its status completed;
\* a failure between inserting the art piece and completing the job does not
\* commit the art piece together with the failed status and the refund.
C26_ArtifactsOnlyWithCompleted ==
    [][ArtifactRecords(db') # ArtifactRecords(db)
          => /\ db'.job.status = "completed"
             /\ db'.job.art_id \in db'.art_pieces
             /\ db'.credit_transactions = db.credit_transactions]_vars

\* The cancel request has committed: the job is cancelled and its cost refunded.
CancelledAndRefunded ==
    /\ cancel.pc = "cancelled"
    /\ db.job.status = "cancelled"

\* C27: under any interleaving of a cancel request with the job's run, a job
\* that was set to cancelled and refunded is never afterwards set to completed
\* or failed by the run, and the tier cost is refunded at most once.
C27_CancelIsFinal ==
    /\ [](Len(db.credit_transactions) <= 1)
    /\ [][CancelledAndRefunded => db'.job.status = "cancelled"]_vars

\* The refund half of C27 alone: at most one refund is durable for the job.
C27_RefundedAtMostOnce == Len(db.credit_transactions) <= 1

\* The status half of C27 alone.
C27_CancelledStays ==
    [][CancelledAndRefunded => db'.job.status = "cancelled"]_vars

\* _initialise rejected the job row because its status is not pending.
RejectedNotPending == error = "Job has unexpected status"

\* C28: a run started for a job whose persisted status is not pending calls no
\* command producer, executes no command, issues no refund, and leaves the
\* job's persisted status and error message as they were.
C28_NonPendingJobUntouched ==
    /\ [](RejectedNotPending
            => /\ pc \in {"handle_failure", "done"}
               /\ ~ctx.set
               /\ tool_calls_executed = 0
               /\ refund_calls = <<>>)
    /\ [][RejectedNotPending
            => /\ db'.job.status = db.job.status
               /\ db'.job.error_message = db.job.error_message]_vars

\* The part of C28 the run does satisfy: no producer call, no command executed
\* and no refund for a job that is not pending.
C28_NonPendingJobNotRun ==
    RejectedNotPending
        => /\ pc \in {"handle_failure", "done"}
           /\ ~ctx.set
           /\ tool_calls_executed = 0
           /\ refund_calls = <<>>
           /\ db.credit_transactions = <<>>

\* The progress events published so far, in order
ProgressEvents == SelectSeq(published, LAMBDA e : e[1] = "progress")

\* The log grows only by the record of the command just handed to the harness.
LogAppendOnly ==
    \/ ctx'.tool_call_log = ctx.tool_call_log
    \/ /\ pc = "loop"
       /\ call' # NoCall
       /\ ctx'.tool_call_log = Append(ctx.tool_call_log, LogEntry(call', result'))

\* Published messages are never changed, and a progress event is published
\* in the step that appends a record, carrying the counter value after that
\* record's command.
EventsFollowLog ==
    \/ published' = published
    \/ /\ Len(published') = Len(published) + 1
       /\ SubSeq(published', 1, Len(published)) = published
       /\ LET event == published'[Len(published')]
          IN  event[1] = "progress"
                 => /\ pc = "loop"
                    /\ Len(ctx'.tool_call_log) = Len(ctx.tool_call_log) + 1
                    /\ event[3] = tool_calls_executed'
                    /\ event[4] = ctx.tier.tool_budget_hard

\* C29 as stated: one record per command handed to the harness, in order and
\* never changed; as many successful records as tool_calls_executed; and at
\* every point exactly one progress event per record, carrying the counter
\* value after that command.
C29_OneEventPerRecord ==
    /\ [](/\ SuccessesUpTo(ctx.tool_call_log, Len(ctx.tool_call_log)) = tool_calls_executed
          /\ Len(ProgressEvents) = Len(ctx.tool_call_log))
    /\ [][LogAppendOnly /\ EventsFollowLog]_vars

\* C29, amended: the log and the counter as stated; every progress event is
\* the event of one record, in order, with the counter value after that
\* command; every record has its event except the last one when publishing
\* it raised, which ends the run.
C29_AtMostOneEventPerRecord ==
    /\ [](/\ SuccessesUpTo(ctx.tool_call_log, Len(ctx.tool_call_log)) = tool_calls_executed
          /\ Len(ProgressEvents) =
                Len(ctx.tool_call_log) - (IF error = "publish raised" THEN 1 ELSE 0))
    /\ [][LogAppendOnly /\ EventsFollowLog]_vars

\* The run has logged a rejected command after an accepted one and published
\* an event for each.
C29_Witness ==
    /\ Len(ctx.tool_call_log) >= 2
    /\ ctx.tool_call_log[1].success
    /\ ~ctx.tool_call_log[2].success
    /\ Len(ProgressEvents) = Len(ctx.tool_call_log)
    /\ ProgressEvents[2][3] = 1

\* Publishing the event of the second record raised.
C29_WitnessPublishRaised ==
    /\ error = "publish raised"
    /\ Len(ctx.tool_call_log) = 2
    /\ Len(ProgressEvents) = 1

\* C30: the persisted tool_calls_executed of the job never exceeds the
\* harness's counter during a run, and once the run has completed the job it
\* equals the number of commands the run executed successfully (2 for a run
\* of one set_pixel followed by seal_canvas).
C30_PersistedCounter ==
    /\ db.job.tool_calls_executed <= tool_calls_executed
    /\ (ctx.set /\ db.job.status = "completed")
          => db.job.tool_calls_executed = tool_calls_executed

\* The first half of C30 alone, which the run does satisfy.
C30_PersistedNeverAhead == db.job.tool_calls_executed <= tool_calls_executed

\* The job was completed by a run of one set_pixel followed by seal_canvas.
C30_SetPixelThenSeal ==
    /\ ctx.set
    /\ db.job.status = "completed"
    /\ Len(ctx.tool_call_log) = 2
    /\ ctx.tool_call_log[1].tool_name = "set_pixel"
    /\ ctx.tool_call_log[2].tool_name = "seal_canvas"
    /\ tool_calls_executed = 2

====
